---------------------------- MODULE Spec2Model ----------------------------
(***************************************************************************)
(* Model of the writing-editor rewriting pipeline: the rule engines        *)
(* (ClarityRules, StyleRules, StructureRules), DocumentProcessor and the   *)
(* editDocument tool.                                                      *)
(*                                                                         *)
(* Text is a sequence of tokens.  A token is one word, one whitespace      *)
(* character (" " or "\n") or one punctuation character.  A regular        *)
(* expression of the source is modelled by what it matches on tokens; the  *)
(* character-level facts a rule needs about a word (its lower-case form,   *)
(* its length, its form without "-ed") are tables over the words used.    *)
(***************************************************************************)
EXTENDS Integers, Sequences, FiniteSets, TLC

\* ------------------------------------------------------------------------
\* Tokens
\* ------------------------------------------------------------------------

Ws == {" ", "\n"}

Punct == {".", ",", "!", "?", ";", ":"}

Term == {".", "!", "?"}

Symbols == Ws \cup Punct \cup {"(", ")", "[", "]", "#", "-"}

IsWord(t) == t \notin Symbols

\* String.prototype.toLowerCase on one token: the words with capitals.
Lower(t) ==
  CASE t = "A" -> "a"
    [] t = "Abstract" -> "abstract"
    [] t = "Added" -> "added"
    [] t = "Clearly" -> "clearly"
    [] t = "Content" -> "content"
    [] t = "Data" -> "data"
    [] t = "Document" -> "document"
    [] t = "Evaluation" -> "evaluation"
    [] t = "First" -> "first"
    [] t = "However" -> "however"
    [] t = "If" -> "if"
    [] t = "In" -> "in"
    [] t = "Introduction" -> "introduction"
    [] t = "It" -> "it"
    [] t = "Meanwhile" -> "meanwhile"
    [] t = "Methods" -> "methods"
    [] t = "No" -> "no"
    [] t = "Note" -> "note"
    [] t = "OVERVIEW" -> "overview"
    [] t = "Our" -> "our"
    [] t = "Overview" -> "overview"
    [] t = "Results" -> "results"
    [] t = "Second" -> "second"
    [] t = "Section" -> "section"
    [] t = "System" -> "system"
    [] t = "The" -> "the"
    [] t = "Third" -> "third"
    [] t = "This" -> "this"
    [] t = "Thus" -> "thus"
    [] t = "Us" -> "us"
    [] t = "We" -> "we"
    [] t = "When" -> "when"
    [] t = "averageSentenceLength" -> "averagesentencelength"
    [] t = "complexWordPercentage" -> "complexwordpercentage"
    [] t = "jargonDensity" -> "jargondensity"
    [] t = "passiveVoicePercentage" -> "passivevoicepercentage"
    [] t = "readabilityScore" -> "readabilityscore"
    [] OTHER -> t
\* charAt(0).toUpperCase() + slice(1) on one token.
Upper1(t) ==
  CASE t = "we" -> "We"
    [] t = "if" -> "If"
    [] t = "when" -> "When"
    [] t = "us" -> "Us"
    [] t = "data" -> "Data"
    [] t = "thus" -> "Thus"
    [] t = "the" -> "The"
    [] t = "this" -> "This"
    [] OTHER -> t

LowerAll(text) == [i \in 1..Len(text) |-> Lower(text[i])]

\* Number of characters of a token, for String.prototype.length.
CharLen(t) ==
  CASE t \in Symbols -> 1
    [] t \in {"1", "A", "a"} -> 1
    [] t \in {"12", "If", "In", "It", "No", "Us", "We", "am", "as", "at",
             "be", "by", "en", "if", "in", "is", "it", "no", "of", "on", "to",
             "us", "we"} -> 2
    [] t \in {"Our", "The", "all", "and", "are", "art", "but", "can", "due",
             "end", "for", "gap", "had", "has", "key", "new", "not", "now",
             "our", "sum", "the", "use", "was", "who", "win"} -> 3
    [] t \in {"Data", "Note", "This", "Thus", "When", "able", "acts", "also",
             "back", "been", "best", "core", "data", "down", "each", "edge",
             "fact", "free", "game", "gift", "have", "help", "idea", "know",
             "main", "most", "near", "next", "note", "null", "over", "past",
             "plan", "same", "show", "team", "test", "that", "this", "thus",
             "time", "true", "used", "uses", "very", "void", "well", "were",
             "when", "whom", "will", "wins", "with", "work"} -> 4
    [] t \in {"Added", "First", "Third", "about", "added", "after", "again",
             "ahead", "based", "basic", "basis", "being", "bonus", "breed",
             "brief", "close", "could", "datae", "datas", "event", "every",
             "exact", "fails", "field", "final", "first", "going", "helps",
             "hence", "issue", "joint", "known", "knows", "later", "light",
             "major", "merge", "needs", "noted", "novel", "order", "paper",
             "plans", "point", "prior", "refer", "shall", "shows", "since",
             "spite", "state", "still", "study", "terms", "tests", "third",
             "total", "until", "using", "where", "which", "while", "whose",
             "world", "worth"} -> 5
    [] t \in {"Second", "System", "actual", "albeit", "before", "course",
             "covers", "crisis", "design", "future", "helped", "hereby",
             "method", "mutual", "noting", "number", "period", "record",
             "reduce", "regard", "repeat", "result", "revert", "robust",
             "second", "serves", "should", "showed", "sudden", "system",
             "tested", "unique", "unless", "unlike", "whilst"} -> 6
    [] t \in {"Clearly", "Content", "However", "Methods", "Results",
             "Section", "ability", "achieve", "advance", "amongst", "because",
             "capable", "changed", "clearly", "combine", "content", "cutting",
             "evaluat", "exactly", "follows", "general", "history", "however",
             "impulse", "insight", "lacking", "methods", "mistake", "opinion",
             "outcome", "present", "problem", "propose", "provide", "purpose",
             "remains", "respect", "results", "section", "serious", "several",
             "studied", "summary", "synergy", "testeds", "testing", "through",
             "today's", "utilize", "various", "warning", "whereas"} -> 7
    [] t \in {"Abstract", "Document", "OVERVIEW", "Overview", "abstract",
             "although", "approach", "changing", "combines", "compared",
             "contrast", "critical", "designed", "document", "everyone",
             "existing", "findings", "foremost", "holistic", "improved",
             "internet", "leverage", "majority", "moreover", "overview",
             "paradigm", "personal", "planning", "positive", "postpone",
             "presents", "previous", "proposed", "research", "rigorous",
             "solution", "surprise", "together", "unsolved", "utilized",
             "utilizes", "validate", "vicinity"} -> 8
    [] t \in {"Meanwhile", "addresses", "challenge", "computers", "concludes",
             "consensus", "different", "difficult", "eliminate", "essential",
             "evaluated", "extensive", "framework", "functions", "implement",
             "important", "introduce", "meanwhile", "necessary", "obviously",
             "organized", "proximity", "technique", "therefore", "utilizing",
             "validates"} -> 9
    [] t \in {"Evaluation", "absolutely", "comparison", "completely",
             "difficulty", "directions", "disruptive", "evaluateds",
             "evaluation", "everywhere", "experience", "facilitate",
             "henceforth", "heretofore", "implements", "inadequate",
             "innovation", "innovative", "introduces", "limitation",
             "subsequent", "techniques", "unexpected", "unfiltered"} -> 10
    [] t \in {"alternative", "conjunction", "consequence", "cooperation",
             "demonstrate", "facilitated", "facilitates", "furthermore",
             "implemented", "improvement", "performance", "significant",
             "substantial", "traditional"} -> 11
    [] t \in {"Introduction", "additionally", "breakthrough", "contribution",
             "conventional", "demonstrated", "demonstrates", "fundamentals",
             "implementing", "improvements", "insufficient", "introduction"} -> 12
    [] t \in {"approximately", "collaboration", "comprehensive",
             "contributions", "effectiveness", "jargonDensity",
             "jargondensity", "revolutionary", "unintentional"} -> 13
    [] t \in {"aforementioned", "groundbreaking", "transformative"} -> 14
    [] t \in {"readabilityScore", "readabilityscore"} -> 16
    [] t \in {"averageSentenceLength", "averagesentencelength",
             "complexWordPercentage", "complexwordpercentage"} -> 21
    [] t \in {"passiveVoicePercentage", "passivevoicepercentage"} -> 22
RECURSIVE TextLen(_)
TextLen(text) ==
  IF text = <<>> THEN 0 ELSE CharLen(Head(text)) + TextLen(Tail(text))

\* The words that String.prototype.includes looks for and that the token t
\* holds: the keywords of StructureRules without a blank.
KeywordsIn(t) ==
  CASE t \in {"Meanwhile", "meanwhile", "while"}
         -> {"while"}
    [] t \in {"abstract"}
         -> {"abstract"}
    [] t \in {"achieve"}
         -> {"achieve"}
    [] t \in {"alternative"}
         -> {"alternative"}
    [] t \in {"approach"}
         -> {"approach"}
    [] t \in {"challenge"}
         -> {"challenge"}
    [] t \in {"clearly"}
         -> {"clearly"}
    [] t \in {"contribution", "contributions"}
         -> {"contribution"}
    [] t \in {"conventional"}
         -> {"conventional"}
    [] t \in {"difficult"}
         -> {"difficult"}
    [] t \in {"difficulty"}
         -> {"difficult", "difficulty"}
    [] t \in {"evaluation"}
         -> {"evaluation"}
    [] t \in {"existing"}
         -> {"existing"}
    [] t \in {"fails"}
         -> {"fails"}
    [] t \in {"gap"}
         -> {"gap"}
    [] t \in {"improvement", "improvements"}
         -> {"improvement"}
    [] t \in {"inadequate"}
         -> {"inadequate"}
    [] t \in {"insufficient"}
         -> {"insufficient"}
    [] t \in {"introduction"}
         -> {"introduction"}
    [] t \in {"issue"}
         -> {"issue"}
    [] t \in {"lacking"}
         -> {"lacking"}
    [] t \in {"limitation"}
         -> {"limitation"}
    [] t \in {"method", "methods"}
         -> {"method"}
    [] t \in {"obviously"}
         -> {"obviously"}
    [] t \in {"overview"}
         -> {"overview"}
    [] t \in {"performance"}
         -> {"performance"}
    [] t \in {"previous"}
         -> {"previous"}
    [] t \in {"problem"}
         -> {"problem"}
    [] t \in {"result", "results"}
         -> {"result"}
    [] t \in {"solution"}
         -> {"solution"}
    [] t \in {"system"}
         -> {"system"}
    [] t \in {"technique", "techniques"}
         -> {"technique"}
    [] t \in {"traditional"}
         -> {"traditional"}
    [] t \in {"unlike"}
         -> {"unlike"}
    [] t \in {"whereas"}
         -> {"whereas"}
    [] OTHER -> {}

\* The first words of the phrases that StructureRules looks for with which
\* the token t ends.
KeywordEnds(t) ==
  CASE t \in {"again", "in", "win"}
         -> {"in"}
    [] t \in {"albeit", "it"}
         -> {"it"}
    [] t \in {"as", "datas", "has", "was", "whereas"}
         -> {"as"}
    [] t \in {"compared"}
         -> {"compared"}
    [] t \in {"computers"}
         -> {"computers"}
    [] t \in {"core", "readabilityScore", "readabilityscore"}
         -> {"core"}
    [] t \in {"everyone"}
         -> {"everyone"}
    [] t \in {"key"}
         -> {"key"}
    [] t \in {"main"}
         -> {"in", "main"}
    [] t \in {"novel"}
         -> {"novel"}
    [] t \in {"of"}
         -> {"of"}
    [] t \in {"our"}
         -> {"our"}
    [] t \in {"the"}
         -> {"the"}
    [] t \in {"this"}
         -> {"this"}
    [] t \in {"we"}
         -> {"we"}
    [] OTHER -> {}

\* The last words of the phrases that StructureRules looks for with which
\* the token t starts.
KeywordStarts(t) ==
  CASE t \in {"approach"}
         -> {"approach"}
    [] t \in {"changed"}
         -> {"changed"}
    [] t \in {"contrast"}
         -> {"contrast"}
    [] t \in {"contribution", "contributions"}
         -> {"contribution"}
    [] t \in {"course"}
         -> {"course"}
    [] t \in {"everywhere"}
         -> {"everywhere"}
    [] t \in {"idea"}
         -> {"idea"}
    [] t \in {"insight"}
         -> {"insight"}
    [] t \in {"introduce", "introduces"}
         -> {"introduce"}
    [] t \in {"know", "known"}
         -> {"know"}
    [] t \in {"knows"}
         -> {"know", "knows"}
    [] t \in {"paper"}
         -> {"paper"}
    [] t \in {"present"}
         -> {"present"}
    [] t \in {"presents"}
         -> {"present", "presents"}
    [] t \in {"propose", "proposed"}
         -> {"propose"}
    [] t \in {"that"}
         -> {"that"}
    [] t \in {"to", "today's", "together", "total"}
         -> {"to"}
    [] t \in {"work"}
         -> {"work"}
    [] t \in {"world"}
         -> {"world"}
    [] OTHER -> {}

\* ------------------------------------------------------------------------
\* Regular-expression helpers on token sequences
\* ------------------------------------------------------------------------

Drop(text, n) == SubSeq(text, n + 1, Len(text))

Take(text, n) == SubSeq(text, 1, n)

Positions(text) == [i \in 1..Len(text) |-> i]

\* The least element of a set of positions, 0 for the empty set.
Least(hits) ==
  IF hits = {} THEN 0 ELSE CHOOSE j \in hits : \A k \in hits : j <= k

\* The greatest element of a set of positions, 0 for the empty set.
Greatest(hits) ==
  IF hits = {} THEN 0 ELSE CHOOSE j \in hits : \A k \in hits : k <= j

\* The least j in i..n with P(j), 0 when there is none.
FirstFrom(i, n, P(_)) == Least({j \in i..n : P(j)})

\* The position a scan from i ends at: the position j it found, or the end of
\* the text (n + 1) when it found none (j = 0).
OrEnd(j, i, n) == IF j # 0 THEN j ELSE IF i > n THEN i ELSE n + 1

\* First position >= i that holds no whitespace (Len+1 when there is none).
SkipWs(text, i) ==
  OrEnd(FirstFrom(i, Len(text), LAMBDA k : text[k] \notin Ws), i, Len(text))

\* \b between positions i-1 and i.
Boundary(text, i) ==
  (i - 1 >= 1 /\ i - 1 <= Len(text) /\ IsWord(text[i - 1]))
    # (i >= 1 /\ i <= Len(text) /\ IsWord(text[i]))

\* The literal phrase pat (lower case) matches at i, ignoring case.
LiteralAt(text, i, pat) ==
  /\ i + Len(pat) - 1 <= Len(text)
  /\ \A k \in 1..Len(pat) : Lower(text[i + k - 1]) = pat[k]

\* new RegExp(`\\b${pat}\\b`, 'gi') matches at i.
PhraseAt(text, i, pat) ==
  /\ LiteralAt(text, i, pat)
  /\ Boundary(text, i)
  /\ Boundary(text, i + Len(pat))

\* replace(/\s+/g, ' '): of every whitespace run one " " stays.
CollapseWs(text) ==
  LET kept == SelectSeq(Positions(text), LAMBDA i :
                          text[i] \notin Ws \/ i = 1 \/ text[i - 1] \notin Ws)
  IN  [n \in 1..Len(kept) |-> IF text[kept[n]] \in Ws THEN " " ELSE text[kept[n]]]

\* replace(/\s+([.,!?;:])/g, '$1'): a whitespace run before punctuation goes.
TightenPunct(text) ==
  LET kept == SelectSeq(Positions(text), LAMBDA i :
                          ~(/\ text[i] \in Ws
                            /\ \E j \in (i + 1)..Len(text) :
                                 /\ text[j] \in Punct
                                 /\ \A k \in i..(j - 1) : text[k] \in Ws))
  IN  [n \in 1..Len(kept) |-> text[kept[n]]]

\* The text from the first token after the leading punctuation mark at j and
\* the whitespace that follows it; text itself when j holds no such mark.
AfterLeadingPunct(text, j) ==
  IF j <= Len(text) /\ text[j] \in {".", ",", ";"}
  THEN Drop(text, SkipWs(text, j + 1) - 1)
  ELSE text

\* replace(/^\s*[.,;]\s*/, '')
StripLeadingPunct(text) == AfterLeadingPunct(text, SkipWs(text, 1))

\* String.prototype.trim
Trim(text) ==
  SubSeq(text, SkipWs(text, 1),
         Greatest({i \in 1..Len(text) : text[i] \notin Ws}))

\* The piece of text.split(/\s+/) that starts at s.
WsPiece(text, s) ==
  SubSeq(text, s,
         OrEnd(FirstFrom(s, Len(text), LAMBDA k : text[k] \in Ws), s, Len(text)) - 1)

\* An empty piece when position i of a nonempty text holds whitespace.
WsEdge(text, i) ==
  IF text # <<>> /\ text[i] \in Ws THEN << <<>> >> ELSE <<>>

\* The pieces of text.split(/\s+/) that start at the positions starts.
WsPieces(text, starts) ==
  WsEdge(text, 1) \o [n \in 1..Len(starts) |-> WsPiece(text, starts[n])]
    \o WsEdge(text, Len(text))

\* text.split(/\s+/): the pieces between whitespace runs; a leading and a
\* trailing whitespace run each leave an empty piece.
SplitWs(text) ==
  IF text = <<>> THEN << <<>> >>
  ELSE WsPieces(text, SelectSeq(Positions(text), LAMBDA i :
                        text[i] \notin Ws /\ (i = 1 \/ text[i - 1] \in Ws)))

\* text.split(/\s+/).length
WordCount(text) ==
  IF text = <<>> THEN 1
  ELSE Cardinality({i \in 1..Len(text) :
                      text[i] \notin Ws /\ (i = 1 \/ text[i - 1] \in Ws)})
         + (IF text[1] \in Ws THEN 1 ELSE 0)
         + (IF text[Len(text)] \in Ws THEN 1 ELSE 0)

\* parts.slice(lo - 1, hi).join(sep)
RECURSIVE JoinRange(_, _, _, _)
JoinRange(parts, sep, lo, hi) ==
  IF lo > hi THEN <<>>
  ELSE IF lo = hi THEN parts[lo]
  ELSE JoinRange(parts, sep, lo, (lo + hi) \div 2) \o sep
         \o JoinRange(parts, sep, (lo + hi) \div 2 + 1, hi)

\* parts.join(sep)
Join(parts, sep) == JoinRange(parts, sep, 1, Len(parts))

\* A Change record (types.ts); the reason text is fixed by the rule name.
MkChange(rule, type, before, after) ==
  [rule |-> rule, type |-> type, before |-> before, after |-> after]

\* ------------------------------------------------------------------------
\* Token-level patterns: a pattern is a sequence of items
\*   [k |-> "lit", v |-> w]   the word w, ignoring case
\*   [k |-> "alt", v |-> ws]  one of the words ws, ignoring case
\*   [k |-> "ws"]             \s+
\*   [k |-> "ws0"]            \s*
\*   [k |-> "cap", c |-> cls] a captured word (\w+) of class cls
\* ------------------------------------------------------------------------

Lit(w) == [k |-> "lit", v |-> w]

Alt(ws) == [k |-> "alt", v |-> ws]

WsP == [k |-> "ws"]

Ws0 == [k |-> "ws0"]

Cap(cls) == [k |-> "cap", c |-> cls]

\* Words that end in "ed" (\w+ed) and in "ing" (\w+ing).
EdWords == {"tested", "used", "evaluated", "designed", "noted", "studied"}

IngWords == {"testing", "using"}

InClass(cls, t) ==
  /\ IsWord(t)
  /\ CASE cls = "any" -> TRUE
       [] cls = "ed" -> t \in EdWords
       [] cls = "ing" -> t \in IngWords
       [] cls = "ed_en" -> t \in EdWords \cup {"en"}
       [] cls = "ed_en_t" -> t \in EdWords \cup {"en", "t"}
       [] cls = "connector" ->
            Lower(t) \in {"and", "but", "however", "moreover", "furthermore",
                          "additionally", "also"}

\* Pattern item it matches the token t.
ItemMatches(it, t) ==
  CASE it.k = "ws" -> t \in Ws
    [] it.k = "lit" -> Lower(t) = it.v
    [] it.k = "alt" -> Lower(t) \in it.v
    [] it.k = "cap" -> InClass(it.c, t)

\* Matches the items n.. of pat at position i; the result holds the position
\* after the match and the captured words.
RECURSIVE MatchFrom(_, _, _, _, _)
MatchFrom(text, i, pat, n, caps) ==
  IF n > Len(pat) THEN [ok |-> TRUE, end |-> i, caps |-> caps]
  ELSE IF pat[n].k = "ws0" THEN MatchFrom(text, SkipWs(text, i), pat, n + 1, caps)
  ELSE IF i > Len(text) \/ ~ItemMatches(pat[n], text[i])
  THEN [ok |-> FALSE, end |-> i, caps |-> caps]
  ELSE MatchFrom(text,
                 IF pat[n].k = "ws" THEN SkipWs(text, i) ELSE i + 1,
                 pat, n + 1,
                 IF pat[n].k = "cap" THEN Append(caps, text[i]) ELSE caps)

\* The match of pat at position i.
Match(text, i, pat) == MatchFrom(text, i, pat, 1, <<>>)

NoMatch == [ok |-> FALSE, end |-> 0, rep |-> <<>>]

Matched(end, rep) == [ok |-> TRUE, end |-> end, rep |-> rep]


\* ------------------------------------------------------------------------
\* The regular expressions the rules replace with, as records rx:
\*   [k |-> "phrase", pat, rep]    new RegExp(`\\b${pat}\\b`, 'gi') -> rep
\*   [k |-> "tense", pattern, tag] a futurePatterns entry
\*   [k |-> "passive", n]          the n-th passivePatterns entry
\*   [k |-> "footnotes"]           /\[\d+\]/g -> ''
\*   [k |-> "dots"]                /\.\s*\./g -> '.'
\*   [k |-> "commas"]              /([.,])\s*,/g -> ','
\*   [k |-> "literal", pat, rep]   new RegExp(pat, 'gi') -> rep
\*   [k |-> "obvious", pat]        new RegExp(pat + '[^.]*\\.', 'gi') -> ''
\* The words of a "literal" or "obvious" expression match whole words: no
\* word of the texts used holds one of them as a proper part.
\* ------------------------------------------------------------------------

\* verb + 's'
AddS(verb) ==
  CASE verb = "test" -> "tests"
    [] verb = "win" -> "wins"
    [] verb = "evaluated" -> "evaluateds"
    [] verb = "tested" -> "testeds"
    [] verb = "use" -> "uses"
    [] verb = "data" -> "datas"

\* The replacement functions of fixTense (style.rules.ts:57-86).
TenseReplacement(tag, caps) ==
  CASE tag = "we_verb" -> <<"we", " ", caps[1]>>
    [] tag = "verb" -> <<caps[1]>>
    [] tag = "will_verb" -> IF caps[1] = "be" THEN <<"is">> ELSE <<AddS(caps[1])>>
    [] tag = "verb_s" -> <<AddS(caps[1])>>

futurePatterns ==
  << [k |-> "tense", tag |-> "we_verb",
      pattern |-> <<Lit("we"), WsP, Lit("will"), WsP, Cap("any")>>],
     [k |-> "tense", tag |-> "verb",
      pattern |-> <<Lit("will"), WsP, Lit("be"), WsP, Cap("ing")>>],
     [k |-> "tense", tag |-> "will_verb",
      pattern |-> <<Lit("will"), WsP, Cap("any")>>],
     [k |-> "tense", tag |-> "verb",
      pattern |-> <<Lit("shall"), WsP, Cap("any")>>],
     [k |-> "tense", tag |-> "verb_s",
      pattern |-> <<Lit("is"), WsP, Lit("going"), WsP, Lit("to"), WsP, Cap("any")>>],
     [k |-> "tense", tag |-> "verb",
      pattern |-> <<Lit("are"), WsP, Lit("going"), WsP, Lit("to"), WsP, Cap("any")>>] >>

\* The replacement of a futurePatterns entry for the match m.
TenseMatch(rx, m) ==
  IF m.ok THEN Matched(m.end, TenseReplacement(rx.tag, m.caps)) ELSE NoMatch

\* getActiveVerb: no word that the passive patterns capture (\w+ed, "en",
\* "t") is a key of irregularVerbs, so the "-ed" branches decide.
getActiveVerb(pastParticiple) ==
  CASE pastParticiple = "tested" -> "test"
    [] pastParticiple = "used" -> "us"
    [] pastParticiple = "evaluated" -> "evaluat"
    [] pastParticiple = "designed" -> "design"
    [] pastParticiple = "noted" -> "not"
    [] pastParticiple = "studied" -> "study"
    [] pastParticiple \in {"en", "t"} -> pastParticiple

\* The text after "that" and whitespace, from the position j of that "that".
AfterThatAt(match, j) ==
  IF j = 0 THEN <<>> ELSE Drop(match, SkipWs(match, j + 1) - 1)

\* sentence.match(/that\s+(.+)/i): the captured text, <<>> when no match.
AfterThat(match) ==
  AfterThatAt(match,
              FirstFrom(1, Len(match) - 1, LAMBDA i :
                          /\ Lower(match[i]) = "that"
                          /\ match[i + 1] \in Ws
                          /\ \E k \in (i + 2)..Len(match) : match[k] \notin Ws))

\* rest with its first character in upper case; match when rest is empty.
CapitalisedOr(rest, match) ==
  IF rest # <<>> THEN <<Upper1(rest[1])>> \o Tail(rest) ELSE match

restructureItIs(match) == CapitalisedOr(AfterThat(match), match)

\* The first ".", "," or line end at or after q, as found at j (0: none): the
\* end of the lazy actor group (.+?)(?:\.|,|$).  The result is the position of
\* the closing "." or ",", Len+1 when the actor runs to the end of the text,
\* and 0 when a line end comes first ("." does not match it).
ActorEndAt(text, q, j) ==
  IF j = 0 THEN (IF q > Len(text) THEN q ELSE Len(text) + 1)
  ELSE IF text[j] = "\n" THEN 0
  ELSE j

ActorEnd(text, q) ==
  ActorEndAt(text, q,
             FirstFrom(q, Len(text), LAMBDA k : text[k] \in {".", ",", "\n"}))

\* `${subject}${match.slice(-1)}`: the subject followed by the last character
\* of the match, which is the last character of the token last.
WithLastChar(subject, last) ==
  CASE last \in Symbols -> <<subject, last>>
    [] subject = "data" /\ last = "us" -> <<"datas">>
    [] subject = "data" /\ last = "we" -> <<"datae">>

passivePatterns ==
  << <<Cap("any"), WsP, Alt({"was", "were"}), WsP, Cap("ed_en_t"), WsP, Lit("by"), WsP>>,
     <<Lit("it"), WsP, Alt({"is", "was"}), WsP, Cap("ed"), WsP, Lit("that")>>,
     <<Cap("any"), WsP, Alt({"has", "have"}), WsP, Lit("been"), WsP, Cap("ed_en"), Ws0>> >>

\* The first passive pattern, whose head m matched: the actor runs to q.
ActorMatch(text, m, q) ==
  IF q = 0 THEN NoMatch
  ELSE Matched(q + 1,
               SubSeq(text, m.end, q - 1)
                 \o <<" ", getActiveVerb(m.caps[2]), " ">>
                 \o WithLastChar(m.caps[1],
                                 IF q <= Len(text) THEN text[q] ELSE text[Len(text)]))

\* Passive pattern n, whose head matched at i as m: where the match ends and
\* what the transform of the rule returns for it.
PassiveMatch(text, i, n, m) ==
  IF ~m.ok THEN NoMatch
  ELSE IF n = 1
  THEN ActorMatch(text, m,
                  IF m.end <= Len(text) /\ text[m.end] # "\n"
                  THEN ActorEnd(text, m.end + 1) ELSE 0)
  ELSE IF n = 2
  THEN Matched(m.end, restructureItIs(SubSeq(text, i, m.end - 1)))
  ELSE Matched(m.end, <<m.caps[1], " ", getActiveVerb(m.caps[2])>>)

\* Tokens made of digits only (\d+).
DigitTokens == {"1", "12"}

\* The pattern of the match record that MatchAt looks for with Match.
PatternOf(rx) ==
  IF rx.k = "tense" THEN rx.pattern
  ELSE IF rx.k = "passive" THEN passivePatterns[rx.n]
  ELSE <<>>

\* The match that ends with the "." at j (0: there is none), replaced by ''.
ToPeriod(j) == IF j = 0 THEN NoMatch ELSE Matched(j + 1, <<>>)

\* The match of the regular expression rx at position i, given the match m of
\* its pattern there.
MatchWith(text, i, rx, m) ==
  CASE rx.k = "phrase" ->
         IF PhraseAt(text, i, rx.pat) THEN Matched(i + Len(rx.pat), rx.rep)
         ELSE NoMatch
    [] rx.k = "tense" ->
         IF Boundary(text, i) THEN TenseMatch(rx, m) ELSE NoMatch
    [] rx.k = "passive" -> PassiveMatch(text, i, rx.n, m)
    [] rx.k = "footnotes" ->
         IF /\ i + 2 <= Len(text)
            /\ text[i] = "["
            /\ text[i + 1] \in DigitTokens
            /\ text[i + 2] = "]"
         THEN Matched(i + 3, <<>>) ELSE NoMatch
    [] rx.k = "literal" ->
         IF LiteralAt(text, i, rx.pat) THEN Matched(i + Len(rx.pat), rx.rep)
         ELSE NoMatch
    [] rx.k = "obvious" ->
         IF LiteralAt(text, i, rx.pat)
         THEN ToPeriod(FirstFrom(i + Len(rx.pat), Len(text), LAMBDA k : text[k] = "."))
         ELSE NoMatch
    [] rx.k \in {"dots", "commas"} ->
         IF /\ text[i] \in (IF rx.k = "dots" THEN {"."} ELSE {".", ","})
            /\ SkipWs(text, i + 1) <= Len(text)
            /\ text[SkipWs(text, i + 1)] = (IF rx.k = "dots" THEN "." ELSE ",")
         THEN Matched(SkipWs(text, i + 1) + 1,
                      <<IF rx.k = "dots" THEN "." ELSE ",">>)
         ELSE NoMatch

MatchAt(text, i, rx) == MatchWith(text, i, rx, Match(text, i, PatternOf(rx)))

\* text.replace(rx, ...) for a /g expression, given the match ms[k] of rx at
\* every position k: the matches are replaced from left to right, each search
\* starting where the last match ended.
RECURSIVE SpliceFrom(_, _, _)
SpliceAt(text, i, j, ms) ==
  IF j = 0 THEN Drop(text, i - 1)
  ELSE SubSeq(text, i, j - 1) \o ms[j].rep \o SpliceFrom(text, ms[j].end, ms)

SpliceFrom(text, i, ms) ==
  SpliceAt(text, i, FirstFrom(i, Len(text), LAMBDA k : ms[k].ok), ms)

ReplaceAll(text, rx) ==
  SpliceFrom(text, 1, [k \in 1..Len(text) |-> MatchAt(text, k, rx)])

\* simplifyLanguage: the (complex, simple) entries, in entry order.
replacements ==
  <<<<<<"utilize">>, <<"use">>>>,
    <<<<"utilizes">>, <<"uses">>>>,
    <<<<"utilized">>, <<"used">>>>,
    <<<<"utilizing">>, <<"using">>>>,
    <<<<"implement">>, <<"use">>>>,
    <<<<"implements">>, <<"uses">>>>,
    <<<<"implemented">>, <<"used">>>>,
    <<<<"implementing">>, <<"using">>>>,
    <<<<"facilitate">>, <<"help">>>>,
    <<<<"facilitates">>, <<"helps">>>>,
    <<<<"facilitated">>, <<"helped">>>>,
    <<<<"demonstrate">>, <<"show">>>>,
    <<<<"demonstrates">>, <<"shows">>>>,
    <<<<"demonstrated">>, <<"showed">>>>,
    <<<<"approximately">>, <<"about">>>>,
    <<<<"subsequent">>, <<"next">>>>,
    <<<<"prior", " ", "to">>, <<"before">>>>,
    <<<<"in", " ", "order", " ", "to">>, <<"to">>>>,
    <<<<"due", " ", "to", " ", "the", " ", "fact", " ", "that">>, <<"because">>>>,
    <<<<"in", " ", "the", " ", "event", " ", "that">>, <<"if">>>>,
    <<<<"at", " ", "this", " ", "point", " ", "in", " ", "time">>, <<"now">>>>,
    <<<<"in", " ", "light", " ", "of", " ", "the", " ", "fact", " ", "that">>, <<"because">>>>,
    <<<<"in", " ", "spite", " ", "of", " ", "the", " ", "fact", " ", "that">>, <<"although">>>>,
    <<<<"for", " ", "the", " ", "purpose", " ", "of">>, <<"to">>>>,
    <<<<"with", " ", "regard", " ", "to">>, <<"about">>>>,
    <<<<"with", " ", "respect", " ", "to">>, <<"about">>>>,
    <<<<"in", " ", "terms", " ", "of">>, <<"about">>>>,
    <<<<"on", " ", "the", " ", "basis", " ", "of">>, <<"based", " ", "on">>>>,
    <<<<"as", " ", "a", " ", "consequence", " ", "of">>, <<"because", " ", "of">>>>,
    <<<<"in", " ", "conjunction", " ", "with">>, <<"with">>>>,
    <<<<"in", " ", "the", " ", "vicinity", " ", "of">>, <<"near">>>>,
    <<<<"a", " ", "number", " ", "of">>, <<"several">>>>,
    <<<<"the", " ", "majority", " ", "of">>, <<"most">>>>>>

\* cleanVocabulary: the forbidden terms, in entry order.
forbidden ==
  <<<<"paradigm">>,
    <<"framework">>,
    <<"thus">>,
    <<"therefore">>,
    <<"hence">>,
    <<"note", " ", "that">>,
    <<"it", " ", "should", " ", "be", " ", "noted", " ", "that">>,
    <<"it", " ", "is", " ", "worth", " ", "noting", " ", "that">>,
    <<"it", " ", "is", " ", "important", " ", "to", " ", "note", " ", "that">>,
    <<"in", " ", "this", " ", "paper">>,
    <<"in", " ", "this", " ", "work">>,
    <<"in", " ", "this", " ", "study">>,
    <<"aforementioned">>,
    <<"hereby">>,
    <<"heretofore">>,
    <<"henceforth">>,
    <<"whilst">>,
    <<"amongst">>,
    <<"albeit">>>>

\* removeRedundancy: the (redundant, concise) entries, in entry order.
redundantPhrases ==
  <<<<<<"absolutely", " ", "essential">>, <<"essential">>>>,
    <<<<"absolutely", " ", "necessary">>, <<"necessary">>>>,
    <<<<"actual", " ", "fact">>, <<"fact">>>>,
    <<<<"added", " ", "bonus">>, <<"bonus">>>>,
    <<<<"advance", " ", "planning">>, <<"planning">>>>,
    <<<<"advance", " ", "warning">>, <<"warning">>>>,
    <<<<"all", "-", "time", " ", "record">>, <<"record">>>>,
    <<<<"basic", " ", "fundamentals">>, <<"fundamentals">>>>,
    <<<<"brief", " ", "summary">>, <<"summary">>>>,
    <<<<"close", " ", "proximity">>, <<"proximity">>>>,
    <<<<"combine", " ", "together">>, <<"combine">>>>,
    <<<<"completely", " ", "eliminate">>, <<"eliminate">>>>,
    <<<<"consensus", " ", "of", " ", "opinion">>, <<"consensus">>>>,
    <<<<"continue", " ", "on">>, <<"continue">>>>,
    <<<<"each", " ", "and", " ", "every">>, <<"each">>>>,
    <<<<"end", " ", "result">>, <<"result">>>>,
    <<<<"exactly", " ", "the", " ", "same">>, <<"the", " ", "same">>>>,
    <<<<"final", " ", "outcome">>, <<"outcome">>>>,
    <<<<"first", " ", "and", " ", "foremost">>, <<"first">>>>,
    <<<<"free", " ", "gift">>, <<"gift">>>>,
    <<<<"future", " ", "plans">>, <<"plans">>>>,
    <<<<"general", " ", "consensus">>, <<"consensus">>>>,
    <<<<"joint", " ", "collaboration">>, <<"collaboration">>>>,
    <<<<"major", " ", "breakthrough">>, <<"breakthrough">>>>,
    <<<<"merge", " ", "together">>, <<"merge">>>>,
    <<<<"mutual", " ", "cooperation">>, <<"cooperation">>>>,
    <<<<"new", " ", "innovation">>, <<"innovation">>>>,
    <<<<"null", " ", "and", " ", "void">>, <<"void">>>>,
    <<<<"past", " ", "experience">>, <<"experience">>>>,
    <<<<"past", " ", "history">>, <<"history">>>>,
    <<<<"period", " ", "of", " ", "time">>, <<"period">>>>,
    <<<<"personal", " ", "opinion">>, <<"opinion">>>>,
    <<<<"plan", " ", "ahead">>, <<"plan">>>>,
    <<<<"positive", " ", "improvement">>, <<"improvement">>>>,
    <<<<"postpone", " ", "until", " ", "later">>, <<"postpone">>>>,
    <<<<"reduce", " ", "down">>, <<"reduce">>>>,
    <<<<"refer", " ", "back">>, <<"refer">>>>,
    <<<<"repeat", " ", "again">>, <<"repeat">>>>,
    <<<<"revert", " ", "back">>, <<"revert">>>>,
    <<<<"same", " ", "exact">>, <<"same">>>>,
    <<<<"serious", " ", "crisis">>, <<"crisis">>>>,
    <<<<"still", " ", "remains">>, <<"remains">>>>,
    <<<<"sudden", " ", "impulse">>, <<"impulse">>>>,
    <<<<"sum", " ", "total">>, <<"total">>>>,
    <<<<"true", " ", "fact">>, <<"fact">>>>,
    <<<<"unexpected", " ", "surprise">>, <<"surprise">>>>,
    <<<<"unintentional", " ", "mistake">>, <<"mistake">>>>,
    <<<<"various", " ", "different">>, <<"various">>>>,
    <<<<"very", " ", "unique">>, <<"unique">>>>>>

\* enforceActiveWriting: the (weak, strong) entries, in entry order.
weakVerbs ==
  <<<<<<"is", " ", "able", " ", "to">>, <<"can">>>>,
    <<<<"are", " ", "able", " ", "to">>, <<"can">>>>,
    <<<<"was", " ", "able", " ", "to">>, <<"could">>>>,
    <<<<"were", " ", "able", " ", "to">>, <<"could">>>>,
    <<<<"has", " ", "the", " ", "ability", " ", "to">>, <<"can">>>>,
    <<<<"have", " ", "the", " ", "ability", " ", "to">>, <<"can">>>>,
    <<<<"is", " ", "capable", " ", "of">>, <<"can">>>>,
    <<<<"are", " ", "capable", " ", "of">>, <<"can">>>>,
    <<<<"serves", " ", "to">>, <<>>>>,
    <<<<"serves", " ", "as">>, <<"is">>>>,
    <<<<"functions", " ", "as">>, <<"is">>>>,
    <<<<"acts", " ", "as">>, <<"is">>>>>>


\* ------------------------------------------------------------------------
\* StyleRules.removeParentheticals: the parenthetical matches
\* ------------------------------------------------------------------------

\* The first ")" at or after i, 0 when there is none.
CloseParen(text, i) == FirstFrom(i, Len(text), LAMBDA k : text[k] = ")")

\* The matches of /\([^)]+\)/g from position i on, in order.
RECURSIVE ParenMatchesFrom(_, _)
ParenMatchTo(text, j, close) ==
  <<SubSeq(text, j, close)>> \o ParenMatchesFrom(text, close + 1)

ParenMatchAt(text, j) ==
  IF j = 0 THEN <<>> ELSE ParenMatchTo(text, j, CloseParen(text, j + 1))

ParenMatchesFrom(text, i) ==
  ParenMatchAt(text, FirstFrom(i, Len(text), LAMBDA k :
                                 text[k] = "(" /\ CloseParen(text, k + 1) >= k + 2))

\* text with the tokens from j on, pat long, replaced by rep (j = 0: no match).
ReplaceAtPos(text, j, pat, rep) ==
  IF j = 0 THEN text
  ELSE SubSeq(text, 1, j - 1) \o rep \o Drop(text, j + Len(pat) - 1)

\* result.replace(match, rep) with a string pattern: the first occurrence only.
ReplaceFirst(text, pat, rep) ==
  ReplaceAtPos(text,
               FirstFrom(1, Len(text) - Len(pat) + 1, LAMBDA k :
                           SubSeq(text, k, k + Len(pat) - 1) = pat),
               pat, rep)

\* The replacement of a parenthetical with the trimmed content
\* (style.rules.ts:119-130).
ParenReplacement(content) ==
  IF TextLen(content) > 30 THEN <<".", " ">> \o content \o <<".">>
  ELSE IF TextLen(content) > 10 THEN <<",", " ">> \o content \o <<",">>
  ELSE <<" ">> \o content

\* The forEach over the parenthetical matches n.. (style.rules.ts:118-131).
RECURSIVE InlineParens(_, _, _)
InlineParens(result, matches, n) ==
  IF n > Len(matches) THEN result
  ELSE InlineParens(
         ReplaceFirst(result, matches[n],
                      ParenReplacement(Trim(SubSeq(matches[n], 2, Len(matches[n]) - 1)))),
         matches, n + 1)

\* ------------------------------------------------------------------------
\* The rules of ClarityRules and StyleRules that rewrite a text in place.  A
\* rule is a list of steps: the first `counted` steps set hasChanges when they
\* alter the text, the others run unconditionally and set nothing.  A step is
\* one of the regular expressions above or
\*   [k |-> "parens"]   the forEach over the parenthetical matches
\*   [k |-> "spaces"]   replace(/\s+/g, ' ')
\*   [k |-> "tighten"]  replace(/\s+([.,!?;:])/g, '$1')
\*   [k |-> "lead"]     replace(/^\s*[.,;]\s*/, '')
\*   [k |-> "trim"]     trim()
\* ------------------------------------------------------------------------

ApplyStep(text, step) ==
  CASE step.k = "parens" -> InlineParens(text, ParenMatchesFrom(text, 1), 1)
    [] step.k = "spaces" -> CollapseWs(text)
    [] step.k = "tighten" -> TightenPunct(text)
    [] step.k = "lead" -> StripLeadingPunct(text)
    [] step.k = "trim" -> Trim(text)
    [] OTHER -> ReplaceAll(text, step)

\* The outcome of a step: the new text and whether the step altered the text
\* and counts for hasChanges.
Stepped(text, t2, counts) == [text |-> t2, hit |-> counts /\ t2 # text]

\* The steps lo..hi of a rule: the text after them and hasChanges.
RECURSIVE ApplyRange(_, _, _, _)
ThenRange(l, rule, lo, hi) ==
  IF l.hit THEN [text |-> ApplyRange(l.text, rule, lo, hi).text, hit |-> TRUE]
  ELSE ApplyRange(l.text, rule, lo, hi)

ApplyRange(text, rule, lo, hi) ==
  IF lo > hi THEN [text |-> text, hit |-> FALSE]
  ELSE IF lo = hi
  THEN Stepped(text, ApplyStep(text, rule.steps[lo]), lo <= rule.counted)
  ELSE ThenRange(ApplyRange(text, rule, lo, (lo + hi) \div 2), rule,
                 (lo + hi) \div 2 + 1, hi)

\* A rule call returns the new text and the Changes it pushed (none or one).
RuleResult(text, hasChanges, change) ==
  [text |-> text, changes |-> IF hasChanges THEN <<change>> ELSE <<>>]

\* The end of a rule: the Change is pushed when hasChanges is set.
Pushed(text, rule, r) ==
  RuleResult(r.text, r.hit, MkChange(rule.rule, rule.type, text, r.text))

\* rule applied to text.
ApplyRule(text, rule) ==
  Pushed(text, rule, ApplyRange(text, rule, 1, Len(rule.steps)))

\* The steps of a dictionary rule: one \b-anchored replacement per entry.
Phrases(dict) ==
  [i \in 1..Len(dict) |-> [k |-> "phrase", pat |-> dict[i][1], rep |-> dict[i][2]]]


\* ------------------------------------------------------------------------
\* The rules, in the order processSentence calls them
\* ------------------------------------------------------------------------

fixPassiveVoice ==
  [rule |-> "Passive Voice", type |-> "clarity", engine |-> "clarity",
   steps |-> [n \in 1..Len(passivePatterns) |-> [k |-> "passive", n |-> n]],
   counted |-> Len(passivePatterns)]

simplifyLanguage ==
  [rule |-> "Simplified Language", type |-> "vocabulary", engine |-> "clarity",
   steps |-> Phrases(replacements),
   counted |-> Len(replacements)]

cleanVocabulary ==
  [rule |-> "Forbidden Vocabulary", type |-> "vocabulary", engine |-> "style",
   steps |-> [i \in 1..Len(forbidden) |->
                [k |-> "phrase", pat |-> forbidden[i], rep |-> <<>>]]
               \o <<[k |-> "spaces"], [k |-> "tighten"], [k |-> "lead"], [k |-> "dots"]>>,
   counted |-> Len(forbidden)]

fixTense ==
  [rule |-> "Tense Correction", type |-> "style", engine |-> "style",
   steps |-> futurePatterns,
   counted |-> Len(futurePatterns)]

removeRedundancy ==
  [rule |-> "Redundancy Removed", type |-> "style", engine |-> "style",
   steps |-> Phrases(redundantPhrases),
   counted |-> Len(redundantPhrases)]

enforceActiveWriting ==
  [rule |-> "Active Writing", type |-> "style", engine |-> "style",
   steps |-> Phrases(weakVerbs) \o <<[k |-> "spaces"], [k |-> "trim"]>>,
   counted |-> Len(weakVerbs)]

removeParentheticals ==
  [rule |-> "Parentheticals Removed", type |-> "style", engine |-> "style",
   steps |-> <<[k |-> "parens"], [k |-> "footnotes"], [k |-> "spaces"],
               [k |-> "tighten"], [k |-> "commas"], [k |-> "dots"]>>,
   counted |-> 2]

\* The rule calls of processSentence with idea separation's input left
\* uncleaned: the cleanup of vocabulary, tense and redundancy is not called.
sentenceRulesWithoutCleanup ==
  <<fixPassiveVoice, simplifyLanguage, enforceActiveWriting, removeParentheticals>>

\* The rule calls of processSentence, in call order
\* (documentParser.ts:65-71).
sentenceRules ==
  <<fixPassiveVoice, simplifyLanguage, cleanVocabulary, fixTense,
    removeRedundancy, enforceActiveWriting, removeParentheticals>>


\* ------------------------------------------------------------------------
\* ClarityRules: the rules that split a sentence
\* ------------------------------------------------------------------------

\* The trimmed fragment as a sentence: capitalised, with a closing ".".
Completed(sentence) ==
  IF sentence = <<>> THEN <<>>
  ELSE <<Upper1(sentence[1])>> \o Tail(sentence)
         \o (IF sentence[Len(sentence)] \in Term THEN <<>> ELSE <<".">>)

ensureCompleteSentence(fragment) == Completed(Trim(fragment))

\* The first position at or after i that holds no terminator.
SkipTerm(text, i) ==
  OrEnd(FirstFrom(i, Len(text), LAMBDA k : text[k] \notin Term), i, Len(text))

\* The first terminator at or after i.
NextTerm(text, i) == FirstFrom(i, Len(text), LAMBDA k : text[k] \in Term)

\* The match of /[^.!?]+[.!?]+/ that starts at s.
SentenceAt(text, s) == SubSeq(text, s, SkipTerm(text, NextTerm(text, s)) - 1)

SentencesAt(text, starts) ==
  [n \in 1..Len(starts) |-> SentenceAt(text, starts[n])]

\* text.match(/[^.!?]+[.!?]+/g): a run of non-terminators, then a run of
\* terminators; text after the last terminator belongs to no match.
SentenceMatches(text) ==
  SentencesAt(text, SelectSeq(Positions(text), LAMBDA s :
                      /\ text[s] \notin Term
                      /\ s = 1 \/ text[s - 1] \in Term
                      /\ \E k \in s..Len(text) : text[k] \in Term))

\* sentence.split(pattern), given the match ms[k] of the pattern at every
\* position k: the pieces between the matches, with the words a capture group
\* matched placed between them.
RECURSIVE SplitRxFrom(_, _, _)
SplitRxAt(text, i, j, ms) ==
  IF j = 0 THEN <<Drop(text, i - 1)>>
  ELSE <<SubSeq(text, i, j - 1)>>
         \o [k \in 1..Len(ms[j].caps) |-> <<ms[j].caps[k]>>]
         \o SplitRxFrom(text, ms[j].end, ms)

SplitRxFrom(text, i, ms) ==
  SplitRxAt(text, i, FirstFrom(i, Len(text), LAMBDA k : ms[k].ok), ms)

SplitRx(text, pat) ==
  SplitRxFrom(text, 1, [k \in 1..Len(text) |-> Match(text, k, pat)])

\* The patterns of intelligentSplit, in priority order.  The replacement field
\* of an entry is never read by the code.
conjunctions ==
  << <<Lit(","), Ws0, Lit("and"), WsP>>,
     <<Lit(","), Ws0, Lit("but"), WsP>>,
     <<Lit(";"), Ws0>>,
     <<Lit(","), Ws0, Lit("which"), WsP>>,
     <<Lit(","), Ws0, Lit("while"), WsP>> >>

\* Sentences longer than this many words are split (part_000:110).
LongSentenceWords == 25

\* A half of a split needs at least this many words (part_000:142).
MinSplitWords == 5

\* The loop of intelligentSplit from conjunction n on.
RECURSIVE intelligentSplitFrom(_, _)
SplitOrNext(sentence, n, parts) ==
  IF /\ Len(parts) = 2
     /\ \A k \in 1..2 : WordCount(parts[k]) >= MinSplitWords
  THEN <<ensureCompleteSentence(parts[1]), ensureCompleteSentence(parts[2])>>
  ELSE intelligentSplitFrom(sentence, n + 1)

intelligentSplitFrom(sentence, n) ==
  IF n > Len(conjunctions) THEN <<sentence>>
  ELSE SplitOrNext(sentence, n, SplitRx(sentence, conjunctions[n]))

intelligentSplit(sentence) == intelligentSplitFrom(sentence, 1)

\* seqs.flat()
Flat(seqs) == JoinRange(seqs, <<>>, 1, Len(seqs))

\* The body of the forEach of splitLongSentences for a long sentence that
\* intelligentSplit returned split for.
LongSplit(trimmed, split) ==
  [parts |-> split,
   changes |-> IF Len(split) > 1
               THEN <<MkChange("Long Sentence", "clarity", trimmed,
                               Join(split, <<" ">>))>>
               ELSE <<>>]

\* The body of the forEach of splitLongSentences.
SplitLong(trimmed) ==
  IF WordCount(trimmed) > LongSentenceWords
  THEN LongSplit(trimmed, intelligentSplit(trimmed))
  ELSE [parts |-> <<trimmed>>, changes |-> <<>>]

\* The forEach of splitLongSentences over the matched sentences.
SplitLongEach(sentences) ==
  [n \in 1..Len(sentences) |-> SplitLong(Trim(sentences[n]))]

\* What splitLongSentences returns and pushes, given the outcome per sentence.
SplitLongJoined(each) ==
  [text |-> Join(Flat([n \in 1..Len(each) |-> each[n].parts]), <<" ">>),
   changes |-> Flat([n \in 1..Len(each) |-> each[n].changes])]

\* text.match(...) || [text]
MatchesOr(found, text) == IF found = <<>> THEN <<text>> ELSE found

splitLongSentences(text) ==
  SplitLongJoined(SplitLongEach(MatchesOr(SentenceMatches(text), text)))

clauseIndicators ==
  {"which", "that", "who", "whom", "whose", "where", "when", "while", "although",
   "because", "since", "if", "unless", "after", "before", "as"}

countClauses(sentence) ==
  Cardinality({i \in 1..Len(sentence) :
                 /\ Lower(sentence[i]) \in clauseIndicators
                 /\ Boundary(sentence, i)
                 /\ Boundary(sentence, i + 1)}) + 1

\* More clauses than this and the sentence is separated (part_000:156).
MaxClauses == 2

connectors == <<WsP, Cap("connector"), WsP>>

\* The filter of separateMultipleIdeas: drops empty parts and connector words.
KeepIdeas(parts) ==
  SelectSeq(parts, LAMBDA part :
    ~(part = <<>> \/ (Len(part) = 1 /\ InClass("connector", part[1]))))

\* The parts as sentences and the Change pushed for them.
Separated(sentence, separated) ==
  [parts |-> separated,
   changes |-> <<MkChange("Multiple Ideas", "clarity", sentence,
                          Join(separated, <<" ">>))>>]

\* separateMultipleIdeas after the split and the filter.
Separate(sentence, parts) ==
  IF Len(parts) > 1
  THEN Separated(sentence,
                 [k \in 1..Len(parts) |-> ensureCompleteSentence(Trim(parts[k]))])
  ELSE [parts |-> <<sentence>>, changes |-> <<>>]

\* Returns the list of sentences and the Changes pushed.
separateMultipleIdeas(sentence) ==
  IF countClauses(sentence) <= MaxClauses
  THEN [parts |-> <<sentence>>, changes |-> <<>>]
  ELSE Separate(sentence, KeepIdeas(SplitRx(sentence, connectors)))


\* ------------------------------------------------------------------------
\* DocumentProcessor: segmentation and the per-sentence pipeline
\* ------------------------------------------------------------------------

\* The piece n of text.split('\n'), given the positions nl of the line ends.
LineAt(text, nl, n) ==
  SubSeq(text,
         IF n = 1 THEN 1 ELSE nl[n - 1] + 1,
         IF n = Len(nl) + 1 THEN Len(text) ELSE nl[n] - 1)

LinesAt(text, nl) == [n \in 1..(Len(nl) + 1) |-> LineAt(text, nl, n)]

\* text.split('\n')
SplitLines(text) ==
  LinesAt(text, SelectSeq(Positions(text), LAMBDA i : text[i] = "\n"))

\* The first position at or after i that holds no "#".
SkipHashes(line, i) ==
  OrEnd(FirstFrom(i, Len(line), LAMBDA k : line[k] # "#"), i, Len(line))

\* The title of a line whose "#" run ends before h and whose whitespace run
\* after it ends before j.
SectionTitle(line, h, j) ==
  IF h = 1 \/ j = h THEN <<>>
  ELSE IF j <= Len(line) THEN Drop(line, j - 1)
  ELSE IF j - h >= 2 THEN <<line[Len(line)]>>
  ELSE <<>>

\* The title of a line whose "#" run ends before h.
SectionTitleAfter(line, h) == SectionTitle(line, h, SkipWs(line, h))

\* line.match(/^#+\s+(.+)$/): the title, or <<>> when the line does not match.
sectionPattern(line) == SectionTitleAfter(line, SkipHashes(line, 1))

\* A word whose first character is in [A-Z].
IsCapital(t) == IsWord(t) /\ Lower(t) # t

\* The position after the digits and the "." of a numbered line, 1 when the
\* line does not start with digits.
NumberEnd(line) ==
  IF line = <<>> \/ line[1] \notin DigitTokens THEN 1
  ELSE IF Len(line) >= 2 /\ line[2] = "." THEN 3
  ELSE 2

\* Where the title starts: after the number and its whitespace, which ends
\* before j, when the line has both; else at the start of the line.
TitleStart(e, j) == IF e > 1 /\ j > e THEN j ELSE 1

\* The title that starts at start, or <<>>.
NumberedTitle(line, start) ==
  IF /\ start <= Len(line)
     /\ IsCapital(line[start])
     /\ \A k \in start..Len(line) : line[k] \notin Term
  THEN Drop(line, start - 1)
  ELSE <<>>

NumberedAfter(line, e) == NumberedTitle(line, TitleStart(e, SkipWs(line, e)))

\* line.match(/^(?:\d+\.?\s+)?([A-Z][^.!?]*?)$/): the title, or <<>>.
numberedPattern(line) == NumberedAfter(line, NumberEnd(line))

\* sectionMatch || numberedMatch
IsHeading(line) == sectionPattern(line) # <<>> \/ numberedPattern(line) # <<>>

\* sectionMatch ? sectionMatch[1] : numberedMatch![1]
TitleOf(line) ==
  IF sectionPattern(line) # <<>> THEN sectionPattern(line) ELSE numberedPattern(line)

\* The last content line of the heading heads[n]: the line before the next
\* heading, or the last line.
LastLineOf(lines, heads, n) ==
  IF n = Len(heads) THEN Len(lines) ELSE heads[n + 1] - 1

\* The section the loop pushes for the heading heads[n].
SectionAt(lines, heads, n) ==
  [title |-> TitleOf(lines[heads[n]]),
   content |-> Trim(JoinRange(lines, <<"\n">>, heads[n] + 1,
                              LastLineOf(lines, heads, n)))]

\* The sections pushed for the headings kept: a heading is pushed when the
\* next heading, or the end of the text, finds contentLines nonempty.
SectionsAt(lines, heads, kept) ==
  [n \in 1..Len(kept) |-> SectionAt(lines, heads, kept[n])]

\* The loop of extractSections over the lines, with the headings at heads.
SectionsOfLines(lines, heads) ==
  SectionsAt(lines, heads,
             SelectSeq(Positions(heads), LAMBDA n :
                         LastLineOf(lines, heads, n) > heads[n]))

\* The loop of extractSections over the lines.
ExtractLoop(lines) ==
  SectionsOfLines(lines, SelectSeq(Positions(lines), LAMBDA n : IsHeading(lines[n])))

\* The fallback of extractSections: one section "Document".
OrDocument(sections, text) ==
  IF sections = <<>> /\ Trim(text) # <<>>
  THEN <<[title |-> <<"Document">>, content |-> Trim(text)]>>
  ELSE sections

extractSections(text) == OrDocument(ExtractLoop(SplitLines(text)), text)

\* The body of the forEach of splitIntoSentences.
SplitOne(trimmed) ==
  IF WordCount(trimmed) > LongSentenceWords
  THEN splitLongSentences(trimmed)
  ELSE [text |-> trimmed, changes |-> <<>>]

\* The forEach of splitIntoSentences.
SplitEach(sentences) ==
  [n \in 1..Len(sentences) |-> SplitOne(Trim(sentences[n]))]

\* What splitIntoSentences returns and what splitLongSentences pushed
\* meanwhile, given the outcome per sentence.
SplitAll(each) ==
  [sentences |-> [n \in 1..Len(each) |-> each[n].text],
   changes |-> Flat([n \in 1..Len(each) |-> each[n].changes])]

\* Returns the sentences and the Changes splitLongSentences pushed meanwhile.
splitIntoSentences(text) ==
  IF text = <<>> THEN [sentences |-> <<>>, changes |-> <<>>]
  ELSE SplitAll(SplitEach(SentenceMatches(text)))

\* An entry of the application log: the engine whose accumulator receives the
\* Change, and the Change.
Logged(engine, changes) ==
  [k \in 1..Len(changes) |-> [engine |-> engine, change |-> changes[k]]]

\* The rule calls n.. of processSentence on text: the text after them and the
\* Changes pushed, in the order the rule calls pushed them.
RECURSIVE ApplyRules(_, _, _)
ThenRules(r, log, n) ==
  IF r.changes = <<>> THEN ApplyRules(r.text, log, n + 1)
  ELSE ApplyRules(r.text, log \o Logged(sentenceRules[n].engine, r.changes), n + 1)

ApplyRules(text, log, n) ==
  IF n > Len(sentenceRules) THEN [text |-> text, log |-> log]
  ELSE ThenRules(ApplyRule(text, sentenceRules[n]), log, n)

\* The end of processSentence: the sentence is replaced by its parts when
\* separateMultipleIdeas returned more than one.
JoinSplits(r, splits) ==
  [log |-> r.log \o Logged("clarity", splits.changes),
   text |-> IF Len(splits.parts) > 1 THEN Join(splits.parts, <<" ">>) ELSE r.text]

\* processSentence after the rules that rewrite the sentence in place.
ThenSeparate(r) == JoinSplits(r, separateMultipleIdeas(r.text))

\* processSentence: the edited sentence and the Changes pushed, in the order
\* the rule calls pushed them.
processSentence(sentence) ==
  IF Trim(sentence) = <<>> THEN [text |-> sentence, log |-> <<>>]
  ELSE ThenSeparate(ApplyRules(sentence, <<>>, 1))

\* The edited sentences and the Changes pushed, given the outcome per sentence.
ProcessAll(each) ==
  [texts |-> [n \in 1..Len(each) |-> each[n].text],
   log |-> Flat([n \in 1..Len(each) |-> each[n].log])]

\* sentences.map(s => this.processSentence(s)): processSentence holds no await,
\* so every call runs to completion when it is made.
ProcessEach(sentences) ==
  ProcessAll([n \in 1..Len(sentences) |-> processSentence(sentences[n])])

\* Words that end in was|were|been|being|is|are|am, and words that hold "ed"
\* after their first character: what /(?:was|...|am)\s+\w+ed/gi needs to know.
AuxTail == {"was", "were", "been", "being", "is", "are", "am", "this"}

EdInside == EdWords \cup {"unfiltered"}

\* (text.match(/(?:was|were|been|being|is|are|am)\s+\w+ed/gi) || []).length
PassiveMatchCount(text) ==
  Cardinality({i \in 1..Len(text) :
                 /\ Lower(text[i]) \in AuxTail
                 /\ i + 1 <= Len(text) /\ text[i + 1] \in Ws
                 /\ \E j \in (i + 2)..Len(text) :
                      /\ text[j] \in EdInside
                      /\ \A k \in (i + 1)..(j - 1) : text[k] \in Ws})

\* sentences.filter(s => s.trim().split(/\s+/).length > 25).length
CountLong(sentences) ==
  Cardinality({k \in 1..Len(sentences) :
                 WordCount(Trim(sentences[k])) > LongSentenceWords})

countLongSentences(text) == CountLong(SentenceMatches(text))

\* ------------------------------------------------------------------------
\* DocumentProcessor.calculateClarityScore
\* ------------------------------------------------------------------------

\* The characters of a lower-case token, for the loops and the classes that
\* read a word character by character.
Chars(t) ==
  CASE t \in Symbols -> <<t>>
    [] t = "1" -> <<"1">>
    [] t = "12" -> <<"1", "2">>
    [] t = "a" -> <<"a">>
    [] t = "ability" -> <<"a", "b", "i", "l", "i", "t", "y">>
    [] t = "able" -> <<"a", "b", "l", "e">>
    [] t = "about" -> <<"a", "b", "o", "u", "t">>
    [] t = "absolutely" -> <<"a", "b", "s", "o", "l", "u", "t", "e", "l",
         "y">>
    [] t = "abstract" -> <<"a", "b", "s", "t", "r", "a", "c", "t">>
    [] t = "achieve" -> <<"a", "c", "h", "i", "e", "v", "e">>
    [] t = "acts" -> <<"a", "c", "t", "s">>
    [] t = "actual" -> <<"a", "c", "t", "u", "a", "l">>
    [] t = "added" -> <<"a", "d", "d", "e", "d">>
    [] t = "additionally" -> <<"a", "d", "d", "i", "t", "i", "o", "n", "a",
         "l", "l", "y">>
    [] t = "addresses" -> <<"a", "d", "d", "r", "e", "s", "s", "e", "s">>
    [] t = "advance" -> <<"a", "d", "v", "a", "n", "c", "e">>
    [] t = "aforementioned" -> <<"a", "f", "o", "r", "e", "m", "e", "n", "t",
         "i", "o", "n", "e", "d">>
    [] t = "after" -> <<"a", "f", "t", "e", "r">>
    [] t = "again" -> <<"a", "g", "a", "i", "n">>
    [] t = "ahead" -> <<"a", "h", "e", "a", "d">>
    [] t = "albeit" -> <<"a", "l", "b", "e", "i", "t">>
    [] t = "all" -> <<"a", "l", "l">>
    [] t = "also" -> <<"a", "l", "s", "o">>
    [] t = "alternative" -> <<"a", "l", "t", "e", "r", "n", "a", "t", "i",
         "v", "e">>
    [] t = "although" -> <<"a", "l", "t", "h", "o", "u", "g", "h">>
    [] t = "am" -> <<"a", "m">>
    [] t = "amongst" -> <<"a", "m", "o", "n", "g", "s", "t">>
    [] t = "and" -> <<"a", "n", "d">>
    [] t = "approach" -> <<"a", "p", "p", "r", "o", "a", "c", "h">>
    [] t = "approximately" -> <<"a", "p", "p", "r", "o", "x", "i", "m", "a",
         "t", "e", "l", "y">>
    [] t = "are" -> <<"a", "r", "e">>
    [] t = "art" -> <<"a", "r", "t">>
    [] t = "as" -> <<"a", "s">>
    [] t = "at" -> <<"a", "t">>
    [] t = "averagesentencelength" -> <<"a", "v", "e", "r", "a", "g", "e",
         "s", "e", "n", "t", "e", "n", "c", "e",
         "l", "e", "n", "g", "t", "h">>
    [] t = "back" -> <<"b", "a", "c", "k">>
    [] t = "based" -> <<"b", "a", "s", "e", "d">>
    [] t = "basic" -> <<"b", "a", "s", "i", "c">>
    [] t = "basis" -> <<"b", "a", "s", "i", "s">>
    [] t = "be" -> <<"b", "e">>
    [] t = "because" -> <<"b", "e", "c", "a", "u", "s", "e">>
    [] t = "been" -> <<"b", "e", "e", "n">>
    [] t = "before" -> <<"b", "e", "f", "o", "r", "e">>
    [] t = "being" -> <<"b", "e", "i", "n", "g">>
    [] t = "best" -> <<"b", "e", "s", "t">>
    [] t = "bonus" -> <<"b", "o", "n", "u", "s">>
    [] t = "breakthrough" -> <<"b", "r", "e", "a", "k", "t", "h", "r", "o",
         "u", "g", "h">>
    [] t = "breed" -> <<"b", "r", "e", "e", "d">>
    [] t = "brief" -> <<"b", "r", "i", "e", "f">>
    [] t = "but" -> <<"b", "u", "t">>
    [] t = "by" -> <<"b", "y">>
    [] t = "can" -> <<"c", "a", "n">>
    [] t = "capable" -> <<"c", "a", "p", "a", "b", "l", "e">>
    [] t = "challenge" -> <<"c", "h", "a", "l", "l", "e", "n", "g", "e">>
    [] t = "changed" -> <<"c", "h", "a", "n", "g", "e", "d">>
    [] t = "changing" -> <<"c", "h", "a", "n", "g", "i", "n", "g">>
    [] t = "clearly" -> <<"c", "l", "e", "a", "r", "l", "y">>
    [] t = "close" -> <<"c", "l", "o", "s", "e">>
    [] t = "collaboration" -> <<"c", "o", "l", "l", "a", "b", "o", "r", "a",
         "t", "i", "o", "n">>
    [] t = "combine" -> <<"c", "o", "m", "b", "i", "n", "e">>
    [] t = "combines" -> <<"c", "o", "m", "b", "i", "n", "e", "s">>
    [] t = "compared" -> <<"c", "o", "m", "p", "a", "r", "e", "d">>
    [] t = "comparison" -> <<"c", "o", "m", "p", "a", "r", "i", "s", "o",
         "n">>
    [] t = "completely" -> <<"c", "o", "m", "p", "l", "e", "t", "e", "l",
         "y">>
    [] t = "complexwordpercentage" -> <<"c", "o", "m", "p", "l", "e", "x",
         "w", "o", "r", "d", "p", "e", "r", "c",
         "e", "n", "t", "a", "g", "e">>
    [] t = "comprehensive" -> <<"c", "o", "m", "p", "r", "e", "h", "e", "n",
         "s", "i", "v", "e">>
    [] t = "computers" -> <<"c", "o", "m", "p", "u", "t", "e", "r", "s">>
    [] t = "concludes" -> <<"c", "o", "n", "c", "l", "u", "d", "e", "s">>
    [] t = "conjunction" -> <<"c", "o", "n", "j", "u", "n", "c", "t", "i",
         "o", "n">>
    [] t = "consensus" -> <<"c", "o", "n", "s", "e", "n", "s", "u", "s">>
    [] t = "consequence" -> <<"c", "o", "n", "s", "e", "q", "u", "e", "n",
         "c", "e">>
    [] t = "content" -> <<"c", "o", "n", "t", "e", "n", "t">>
    [] t = "contrast" -> <<"c", "o", "n", "t", "r", "a", "s", "t">>
    [] t = "contribution" -> <<"c", "o", "n", "t", "r", "i", "b", "u", "t",
         "i", "o", "n">>
    [] t = "contributions" -> <<"c", "o", "n", "t", "r", "i", "b", "u", "t",
         "i", "o", "n", "s">>
    [] t = "conventional" -> <<"c", "o", "n", "v", "e", "n", "t", "i", "o",
         "n", "a", "l">>
    [] t = "cooperation" -> <<"c", "o", "o", "p", "e", "r", "a", "t", "i",
         "o", "n">>
    [] t = "core" -> <<"c", "o", "r", "e">>
    [] t = "could" -> <<"c", "o", "u", "l", "d">>
    [] t = "course" -> <<"c", "o", "u", "r", "s", "e">>
    [] t = "covers" -> <<"c", "o", "v", "e", "r", "s">>
    [] t = "crisis" -> <<"c", "r", "i", "s", "i", "s">>
    [] t = "critical" -> <<"c", "r", "i", "t", "i", "c", "a", "l">>
    [] t = "cutting" -> <<"c", "u", "t", "t", "i", "n", "g">>
    [] t = "data" -> <<"d", "a", "t", "a">>
    [] t = "datae" -> <<"d", "a", "t", "a", "e">>
    [] t = "datas" -> <<"d", "a", "t", "a", "s">>
    [] t = "demonstrate" -> <<"d", "e", "m", "o", "n", "s", "t", "r", "a",
         "t", "e">>
    [] t = "demonstrated" -> <<"d", "e", "m", "o", "n", "s", "t", "r", "a",
         "t", "e", "d">>
    [] t = "demonstrates" -> <<"d", "e", "m", "o", "n", "s", "t", "r", "a",
         "t", "e", "s">>
    [] t = "design" -> <<"d", "e", "s", "i", "g", "n">>
    [] t = "designed" -> <<"d", "e", "s", "i", "g", "n", "e", "d">>
    [] t = "different" -> <<"d", "i", "f", "f", "e", "r", "e", "n", "t">>
    [] t = "difficult" -> <<"d", "i", "f", "f", "i", "c", "u", "l", "t">>
    [] t = "difficulty" -> <<"d", "i", "f", "f", "i", "c", "u", "l", "t",
         "y">>
    [] t = "directions" -> <<"d", "i", "r", "e", "c", "t", "i", "o", "n",
         "s">>
    [] t = "disruptive" -> <<"d", "i", "s", "r", "u", "p", "t", "i", "v",
         "e">>
    [] t = "document" -> <<"d", "o", "c", "u", "m", "e", "n", "t">>
    [] t = "down" -> <<"d", "o", "w", "n">>
    [] t = "due" -> <<"d", "u", "e">>
    [] t = "each" -> <<"e", "a", "c", "h">>
    [] t = "edge" -> <<"e", "d", "g", "e">>
    [] t = "effectiveness" -> <<"e", "f", "f", "e", "c", "t", "i", "v", "e",
         "n", "e", "s", "s">>
    [] t = "eliminate" -> <<"e", "l", "i", "m", "i", "n", "a", "t", "e">>
    [] t = "en" -> <<"e", "n">>
    [] t = "end" -> <<"e", "n", "d">>
    [] t = "essential" -> <<"e", "s", "s", "e", "n", "t", "i", "a", "l">>
    [] t = "evaluat" -> <<"e", "v", "a", "l", "u", "a", "t">>
    [] t = "evaluated" -> <<"e", "v", "a", "l", "u", "a", "t", "e", "d">>
    [] t = "evaluateds" -> <<"e", "v", "a", "l", "u", "a", "t", "e", "d",
         "s">>
    [] t = "evaluation" -> <<"e", "v", "a", "l", "u", "a", "t", "i", "o",
         "n">>
    [] t = "event" -> <<"e", "v", "e", "n", "t">>
    [] t = "every" -> <<"e", "v", "e", "r", "y">>
    [] t = "everyone" -> <<"e", "v", "e", "r", "y", "o", "n", "e">>
    [] t = "everywhere" -> <<"e", "v", "e", "r", "y", "w", "h", "e", "r",
         "e">>
    [] t = "exact" -> <<"e", "x", "a", "c", "t">>
    [] t = "exactly" -> <<"e", "x", "a", "c", "t", "l", "y">>
    [] t = "existing" -> <<"e", "x", "i", "s", "t", "i", "n", "g">>
    [] t = "experience" -> <<"e", "x", "p", "e", "r", "i", "e", "n", "c",
         "e">>
    [] t = "extensive" -> <<"e", "x", "t", "e", "n", "s", "i", "v", "e">>
    [] t = "facilitate" -> <<"f", "a", "c", "i", "l", "i", "t", "a", "t",
         "e">>
    [] t = "facilitated" -> <<"f", "a", "c", "i", "l", "i", "t", "a", "t",
         "e", "d">>
    [] t = "facilitates" -> <<"f", "a", "c", "i", "l", "i", "t", "a", "t",
         "e", "s">>
    [] t = "fact" -> <<"f", "a", "c", "t">>
    [] t = "fails" -> <<"f", "a", "i", "l", "s">>
    [] t = "field" -> <<"f", "i", "e", "l", "d">>
    [] t = "final" -> <<"f", "i", "n", "a", "l">>
    [] t = "findings" -> <<"f", "i", "n", "d", "i", "n", "g", "s">>
    [] t = "first" -> <<"f", "i", "r", "s", "t">>
    [] t = "follows" -> <<"f", "o", "l", "l", "o", "w", "s">>
    [] t = "for" -> <<"f", "o", "r">>
    [] t = "foremost" -> <<"f", "o", "r", "e", "m", "o", "s", "t">>
    [] t = "framework" -> <<"f", "r", "a", "m", "e", "w", "o", "r", "k">>
    [] t = "free" -> <<"f", "r", "e", "e">>
    [] t = "functions" -> <<"f", "u", "n", "c", "t", "i", "o", "n", "s">>
    [] t = "fundamentals" -> <<"f", "u", "n", "d", "a", "m", "e", "n", "t",
         "a", "l", "s">>
    [] t = "furthermore" -> <<"f", "u", "r", "t", "h", "e", "r", "m", "o",
         "r", "e">>
    [] t = "future" -> <<"f", "u", "t", "u", "r", "e">>
    [] t = "game" -> <<"g", "a", "m", "e">>
    [] t = "gap" -> <<"g", "a", "p">>
    [] t = "general" -> <<"g", "e", "n", "e", "r", "a", "l">>
    [] t = "gift" -> <<"g", "i", "f", "t">>
    [] t = "going" -> <<"g", "o", "i", "n", "g">>
    [] t = "groundbreaking" -> <<"g", "r", "o", "u", "n", "d", "b", "r", "e",
         "a", "k", "i", "n", "g">>
    [] t = "had" -> <<"h", "a", "d">>
    [] t = "has" -> <<"h", "a", "s">>
    [] t = "have" -> <<"h", "a", "v", "e">>
    [] t = "help" -> <<"h", "e", "l", "p">>
    [] t = "helped" -> <<"h", "e", "l", "p", "e", "d">>
    [] t = "helps" -> <<"h", "e", "l", "p", "s">>
    [] t = "hence" -> <<"h", "e", "n", "c", "e">>
    [] t = "henceforth" -> <<"h", "e", "n", "c", "e", "f", "o", "r", "t",
         "h">>
    [] t = "hereby" -> <<"h", "e", "r", "e", "b", "y">>
    [] t = "heretofore" -> <<"h", "e", "r", "e", "t", "o", "f", "o", "r",
         "e">>
    [] t = "history" -> <<"h", "i", "s", "t", "o", "r", "y">>
    [] t = "holistic" -> <<"h", "o", "l", "i", "s", "t", "i", "c">>
    [] t = "however" -> <<"h", "o", "w", "e", "v", "e", "r">>
    [] t = "idea" -> <<"i", "d", "e", "a">>
    [] t = "if" -> <<"i", "f">>
    [] t = "implement" -> <<"i", "m", "p", "l", "e", "m", "e", "n", "t">>
    [] t = "implemented" -> <<"i", "m", "p", "l", "e", "m", "e", "n", "t",
         "e", "d">>
    [] t = "implementing" -> <<"i", "m", "p", "l", "e", "m", "e", "n", "t",
         "i", "n", "g">>
    [] t = "implements" -> <<"i", "m", "p", "l", "e", "m", "e", "n", "t",
         "s">>
    [] t = "important" -> <<"i", "m", "p", "o", "r", "t", "a", "n", "t">>
    [] t = "improved" -> <<"i", "m", "p", "r", "o", "v", "e", "d">>
    [] t = "improvement" -> <<"i", "m", "p", "r", "o", "v", "e", "m", "e",
         "n", "t">>
    [] t = "improvements" -> <<"i", "m", "p", "r", "o", "v", "e", "m", "e",
         "n", "t", "s">>
    [] t = "impulse" -> <<"i", "m", "p", "u", "l", "s", "e">>
    [] t = "in" -> <<"i", "n">>
    [] t = "inadequate" -> <<"i", "n", "a", "d", "e", "q", "u", "a", "t",
         "e">>
    [] t = "innovation" -> <<"i", "n", "n", "o", "v", "a", "t", "i", "o",
         "n">>
    [] t = "innovative" -> <<"i", "n", "n", "o", "v", "a", "t", "i", "v",
         "e">>
    [] t = "insight" -> <<"i", "n", "s", "i", "g", "h", "t">>
    [] t = "insufficient" -> <<"i", "n", "s", "u", "f", "f", "i", "c", "i",
         "e", "n", "t">>
    [] t = "internet" -> <<"i", "n", "t", "e", "r", "n", "e", "t">>
    [] t = "introduce" -> <<"i", "n", "t", "r", "o", "d", "u", "c", "e">>
    [] t = "introduces" -> <<"i", "n", "t", "r", "o", "d", "u", "c", "e",
         "s">>
    [] t = "introduction" -> <<"i", "n", "t", "r", "o", "d", "u", "c", "t",
         "i", "o", "n">>
    [] t = "is" -> <<"i", "s">>
    [] t = "issue" -> <<"i", "s", "s", "u", "e">>
    [] t = "it" -> <<"i", "t">>
    [] t = "jargondensity" -> <<"j", "a", "r", "g", "o", "n", "d", "e", "n",
         "s", "i", "t", "y">>
    [] t = "joint" -> <<"j", "o", "i", "n", "t">>
    [] t = "key" -> <<"k", "e", "y">>
    [] t = "know" -> <<"k", "n", "o", "w">>
    [] t = "known" -> <<"k", "n", "o", "w", "n">>
    [] t = "knows" -> <<"k", "n", "o", "w", "s">>
    [] t = "lacking" -> <<"l", "a", "c", "k", "i", "n", "g">>
    [] t = "later" -> <<"l", "a", "t", "e", "r">>
    [] t = "leverage" -> <<"l", "e", "v", "e", "r", "a", "g", "e">>
    [] t = "light" -> <<"l", "i", "g", "h", "t">>
    [] t = "limitation" -> <<"l", "i", "m", "i", "t", "a", "t", "i", "o",
         "n">>
    [] t = "main" -> <<"m", "a", "i", "n">>
    [] t = "major" -> <<"m", "a", "j", "o", "r">>
    [] t = "majority" -> <<"m", "a", "j", "o", "r", "i", "t", "y">>
    [] t = "meanwhile" -> <<"m", "e", "a", "n", "w", "h", "i", "l", "e">>
    [] t = "merge" -> <<"m", "e", "r", "g", "e">>
    [] t = "method" -> <<"m", "e", "t", "h", "o", "d">>
    [] t = "methods" -> <<"m", "e", "t", "h", "o", "d", "s">>
    [] t = "mistake" -> <<"m", "i", "s", "t", "a", "k", "e">>
    [] t = "moreover" -> <<"m", "o", "r", "e", "o", "v", "e", "r">>
    [] t = "most" -> <<"m", "o", "s", "t">>
    [] t = "mutual" -> <<"m", "u", "t", "u", "a", "l">>
    [] t = "near" -> <<"n", "e", "a", "r">>
    [] t = "necessary" -> <<"n", "e", "c", "e", "s", "s", "a", "r", "y">>
    [] t = "needs" -> <<"n", "e", "e", "d", "s">>
    [] t = "new" -> <<"n", "e", "w">>
    [] t = "next" -> <<"n", "e", "x", "t">>
    [] t = "no" -> <<"n", "o">>
    [] t = "not" -> <<"n", "o", "t">>
    [] t = "note" -> <<"n", "o", "t", "e">>
    [] t = "noted" -> <<"n", "o", "t", "e", "d">>
    [] t = "noting" -> <<"n", "o", "t", "i", "n", "g">>
    [] t = "novel" -> <<"n", "o", "v", "e", "l">>
    [] t = "now" -> <<"n", "o", "w">>
    [] t = "null" -> <<"n", "u", "l", "l">>
    [] t = "number" -> <<"n", "u", "m", "b", "e", "r">>
    [] t = "obviously" -> <<"o", "b", "v", "i", "o", "u", "s", "l", "y">>
    [] t = "of" -> <<"o", "f">>
    [] t = "on" -> <<"o", "n">>
    [] t = "opinion" -> <<"o", "p", "i", "n", "i", "o", "n">>
    [] t = "order" -> <<"o", "r", "d", "e", "r">>
    [] t = "organized" -> <<"o", "r", "g", "a", "n", "i", "z", "e", "d">>
    [] t = "our" -> <<"o", "u", "r">>
    [] t = "outcome" -> <<"o", "u", "t", "c", "o", "m", "e">>
    [] t = "over" -> <<"o", "v", "e", "r">>
    [] t = "overview" -> <<"o", "v", "e", "r", "v", "i", "e", "w">>
    [] t = "paper" -> <<"p", "a", "p", "e", "r">>
    [] t = "paradigm" -> <<"p", "a", "r", "a", "d", "i", "g", "m">>
    [] t = "passivevoicepercentage" -> <<"p", "a", "s", "s", "i", "v", "e",
         "v", "o", "i", "c", "e", "p", "e", "r",
         "c", "e", "n", "t", "a", "g", "e">>
    [] t = "past" -> <<"p", "a", "s", "t">>
    [] t = "performance" -> <<"p", "e", "r", "f", "o", "r", "m", "a", "n",
         "c", "e">>
    [] t = "period" -> <<"p", "e", "r", "i", "o", "d">>
    [] t = "personal" -> <<"p", "e", "r", "s", "o", "n", "a", "l">>
    [] t = "plan" -> <<"p", "l", "a", "n">>
    [] t = "planning" -> <<"p", "l", "a", "n", "n", "i", "n", "g">>
    [] t = "plans" -> <<"p", "l", "a", "n", "s">>
    [] t = "point" -> <<"p", "o", "i", "n", "t">>
    [] t = "positive" -> <<"p", "o", "s", "i", "t", "i", "v", "e">>
    [] t = "postpone" -> <<"p", "o", "s", "t", "p", "o", "n", "e">>
    [] t = "present" -> <<"p", "r", "e", "s", "e", "n", "t">>
    [] t = "presents" -> <<"p", "r", "e", "s", "e", "n", "t", "s">>
    [] t = "previous" -> <<"p", "r", "e", "v", "i", "o", "u", "s">>
    [] t = "prior" -> <<"p", "r", "i", "o", "r">>
    [] t = "problem" -> <<"p", "r", "o", "b", "l", "e", "m">>
    [] t = "propose" -> <<"p", "r", "o", "p", "o", "s", "e">>
    [] t = "proposed" -> <<"p", "r", "o", "p", "o", "s", "e", "d">>
    [] t = "provide" -> <<"p", "r", "o", "v", "i", "d", "e">>
    [] t = "proximity" -> <<"p", "r", "o", "x", "i", "m", "i", "t", "y">>
    [] t = "purpose" -> <<"p", "u", "r", "p", "o", "s", "e">>
    [] t = "readabilityscore" -> <<"r", "e", "a", "d", "a", "b", "i", "l",
         "i", "t", "y", "s", "c", "o", "r", "e">>
    [] t = "record" -> <<"r", "e", "c", "o", "r", "d">>
    [] t = "reduce" -> <<"r", "e", "d", "u", "c", "e">>
    [] t = "refer" -> <<"r", "e", "f", "e", "r">>
    [] t = "regard" -> <<"r", "e", "g", "a", "r", "d">>
    [] t = "remains" -> <<"r", "e", "m", "a", "i", "n", "s">>
    [] t = "repeat" -> <<"r", "e", "p", "e", "a", "t">>
    [] t = "research" -> <<"r", "e", "s", "e", "a", "r", "c", "h">>
    [] t = "respect" -> <<"r", "e", "s", "p", "e", "c", "t">>
    [] t = "result" -> <<"r", "e", "s", "u", "l", "t">>
    [] t = "results" -> <<"r", "e", "s", "u", "l", "t", "s">>
    [] t = "revert" -> <<"r", "e", "v", "e", "r", "t">>
    [] t = "revolutionary" -> <<"r", "e", "v", "o", "l", "u", "t", "i", "o",
         "n", "a", "r", "y">>
    [] t = "rigorous" -> <<"r", "i", "g", "o", "r", "o", "u", "s">>
    [] t = "robust" -> <<"r", "o", "b", "u", "s", "t">>
    [] t = "same" -> <<"s", "a", "m", "e">>
    [] t = "second" -> <<"s", "e", "c", "o", "n", "d">>
    [] t = "section" -> <<"s", "e", "c", "t", "i", "o", "n">>
    [] t = "serious" -> <<"s", "e", "r", "i", "o", "u", "s">>
    [] t = "serves" -> <<"s", "e", "r", "v", "e", "s">>
    [] t = "several" -> <<"s", "e", "v", "e", "r", "a", "l">>
    [] t = "shall" -> <<"s", "h", "a", "l", "l">>
    [] t = "should" -> <<"s", "h", "o", "u", "l", "d">>
    [] t = "show" -> <<"s", "h", "o", "w">>
    [] t = "showed" -> <<"s", "h", "o", "w", "e", "d">>
    [] t = "shows" -> <<"s", "h", "o", "w", "s">>
    [] t = "significant" -> <<"s", "i", "g", "n", "i", "f", "i", "c", "a",
         "n", "t">>
    [] t = "since" -> <<"s", "i", "n", "c", "e">>
    [] t = "solution" -> <<"s", "o", "l", "u", "t", "i", "o", "n">>
    [] t = "spite" -> <<"s", "p", "i", "t", "e">>
    [] t = "state" -> <<"s", "t", "a", "t", "e">>
    [] t = "still" -> <<"s", "t", "i", "l", "l">>
    [] t = "studied" -> <<"s", "t", "u", "d", "i", "e", "d">>
    [] t = "study" -> <<"s", "t", "u", "d", "y">>
    [] t = "subsequent" -> <<"s", "u", "b", "s", "e", "q", "u", "e", "n",
         "t">>
    [] t = "substantial" -> <<"s", "u", "b", "s", "t", "a", "n", "t", "i",
         "a", "l">>
    [] t = "sudden" -> <<"s", "u", "d", "d", "e", "n">>
    [] t = "sum" -> <<"s", "u", "m">>
    [] t = "summary" -> <<"s", "u", "m", "m", "a", "r", "y">>
    [] t = "surprise" -> <<"s", "u", "r", "p", "r", "i", "s", "e">>
    [] t = "synergy" -> <<"s", "y", "n", "e", "r", "g", "y">>
    [] t = "system" -> <<"s", "y", "s", "t", "e", "m">>
    [] t = "team" -> <<"t", "e", "a", "m">>
    [] t = "technique" -> <<"t", "e", "c", "h", "n", "i", "q", "u", "e">>
    [] t = "techniques" -> <<"t", "e", "c", "h", "n", "i", "q", "u", "e",
         "s">>
    [] t = "terms" -> <<"t", "e", "r", "m", "s">>
    [] t = "test" -> <<"t", "e", "s", "t">>
    [] t = "tested" -> <<"t", "e", "s", "t", "e", "d">>
    [] t = "testeds" -> <<"t", "e", "s", "t", "e", "d", "s">>
    [] t = "testing" -> <<"t", "e", "s", "t", "i", "n", "g">>
    [] t = "tests" -> <<"t", "e", "s", "t", "s">>
    [] t = "that" -> <<"t", "h", "a", "t">>
    [] t = "the" -> <<"t", "h", "e">>
    [] t = "therefore" -> <<"t", "h", "e", "r", "e", "f", "o", "r", "e">>
    [] t = "third" -> <<"t", "h", "i", "r", "d">>
    [] t = "this" -> <<"t", "h", "i", "s">>
    [] t = "through" -> <<"t", "h", "r", "o", "u", "g", "h">>
    [] t = "thus" -> <<"t", "h", "u", "s">>
    [] t = "time" -> <<"t", "i", "m", "e">>
    [] t = "to" -> <<"t", "o">>
    [] t = "today's" -> <<"t", "o", "d", "a", "y", "'", "s">>
    [] t = "together" -> <<"t", "o", "g", "e", "t", "h", "e", "r">>
    [] t = "total" -> <<"t", "o", "t", "a", "l">>
    [] t = "traditional" -> <<"t", "r", "a", "d", "i", "t", "i", "o", "n",
         "a", "l">>
    [] t = "transformative" -> <<"t", "r", "a", "n", "s", "f", "o", "r", "m",
         "a", "t", "i", "v", "e">>
    [] t = "true" -> <<"t", "r", "u", "e">>
    [] t = "unexpected" -> <<"u", "n", "e", "x", "p", "e", "c", "t", "e",
         "d">>
    [] t = "unfiltered" -> <<"u", "n", "f", "i", "l", "t", "e", "r", "e",
         "d">>
    [] t = "unintentional" -> <<"u", "n", "i", "n", "t", "e", "n", "t", "i",
         "o", "n", "a", "l">>
    [] t = "unique" -> <<"u", "n", "i", "q", "u", "e">>
    [] t = "unless" -> <<"u", "n", "l", "e", "s", "s">>
    [] t = "unlike" -> <<"u", "n", "l", "i", "k", "e">>
    [] t = "unsolved" -> <<"u", "n", "s", "o", "l", "v", "e", "d">>
    [] t = "until" -> <<"u", "n", "t", "i", "l">>
    [] t = "us" -> <<"u", "s">>
    [] t = "use" -> <<"u", "s", "e">>
    [] t = "used" -> <<"u", "s", "e", "d">>
    [] t = "uses" -> <<"u", "s", "e", "s">>
    [] t = "using" -> <<"u", "s", "i", "n", "g">>
    [] t = "utilize" -> <<"u", "t", "i", "l", "i", "z", "e">>
    [] t = "utilized" -> <<"u", "t", "i", "l", "i", "z", "e", "d">>
    [] t = "utilizes" -> <<"u", "t", "i", "l", "i", "z", "e", "s">>
    [] t = "utilizing" -> <<"u", "t", "i", "l", "i", "z", "i", "n", "g">>
    [] t = "validate" -> <<"v", "a", "l", "i", "d", "a", "t", "e">>
    [] t = "validates" -> <<"v", "a", "l", "i", "d", "a", "t", "e", "s">>
    [] t = "various" -> <<"v", "a", "r", "i", "o", "u", "s">>
    [] t = "very" -> <<"v", "e", "r", "y">>
    [] t = "vicinity" -> <<"v", "i", "c", "i", "n", "i", "t", "y">>
    [] t = "void" -> <<"v", "o", "i", "d">>
    [] t = "warning" -> <<"w", "a", "r", "n", "i", "n", "g">>
    [] t = "was" -> <<"w", "a", "s">>
    [] t = "we" -> <<"w", "e">>
    [] t = "well" -> <<"w", "e", "l", "l">>
    [] t = "were" -> <<"w", "e", "r", "e">>
    [] t = "when" -> <<"w", "h", "e", "n">>
    [] t = "where" -> <<"w", "h", "e", "r", "e">>
    [] t = "whereas" -> <<"w", "h", "e", "r", "e", "a", "s">>
    [] t = "which" -> <<"w", "h", "i", "c", "h">>
    [] t = "while" -> <<"w", "h", "i", "l", "e">>
    [] t = "whilst" -> <<"w", "h", "i", "l", "s", "t">>
    [] t = "who" -> <<"w", "h", "o">>
    [] t = "whom" -> <<"w", "h", "o", "m">>
    [] t = "whose" -> <<"w", "h", "o", "s", "e">>
    [] t = "will" -> <<"w", "i", "l", "l">>
    [] t = "win" -> <<"w", "i", "n">>
    [] t = "wins" -> <<"w", "i", "n", "s">>
    [] t = "with" -> <<"w", "i", "t", "h">>
    [] t = "work" -> <<"w", "o", "r", "k">>
    [] t = "world" -> <<"w", "o", "r", "l", "d">>
    [] t = "worth" -> <<"w", "o", "r", "t", "h">>
WordChars ==
  {"a", "b", "c", "d", "e", "f", "g", "h", "i", "j", "k", "l", "m", "n", "o", "p",
   "q", "r", "s", "t", "u", "v", "w", "x", "y", "z",
   "0", "1", "2", "3", "4", "5", "6", "7", "8", "9"}

\* The number of matches of /\b\w{n,}\b/ inside one token: its maximal runs of
\* \w characters that have at least n characters.
LongRuns(chars, n) ==
  Cardinality({i \in 1..Len(chars) :
                 /\ chars[i] \in WordChars
                 /\ i = 1 \/ chars[i - 1] \notin WordChars
                 /\ i + n - 1 <= Len(chars)
                 /\ \A k \in i..(i + n - 1) : chars[k] \in WordChars})

ComplexWordLength == 10

\* The sum of the numbers ns[lo..hi].
RECURSIVE SumRange(_, _, _)
SumRange(ns, lo, hi) ==
  IF lo > hi THEN 0
  ELSE IF lo = hi THEN ns[lo]
  ELSE SumRange(ns, lo, (lo + hi) \div 2) + SumRange(ns, (lo + hi) \div 2 + 1, hi)

Sum(ns) == SumRange(ns, 1, Len(ns))

\* (text.match(/\b\w{10,}\b/g) || []).length
ComplexWordCount(text) ==
  Sum([k \in 1..Len(text) |-> LongRuns(Chars(Lower(text[k])), ComplexWordLength)])

\* sentences.reduce((sum, s) => sum + s.trim().split(/\s+/).length, 0)
SentenceWords(sentences) ==
  Sum([k \in 1..Len(sentences) |-> WordCount(Trim(sentences[k]))])

Min(a, b) == IF a < b THEN a ELSE b

Max(a, b) == IF a > b THEN a ELSE b

\* The same score without the floor at 0.
ClarityScoredUnfloored(count, total, passiveCount, complexCount) ==
  100 - (IF total > 20 * count THEN 10 ELSE 0)
      - (IF total > 25 * count THEN 10 ELSE 0)
      - passiveCount * 2
      - Min(complexCount, 20)

\* The score of calculateClarityScore for a text with sentences, given the sum
\* of the sentences' word counts, the passive matches and the complex words.
ClarityScored(count, total, passiveCount, complexCount) ==
  Max(0, 100 - (IF total > 20 * count THEN 10 ELSE 0)
             - (IF total > 25 * count THEN 10 ELSE 0)
             - passiveCount * 2
             - Min(complexCount, 20))

\* The score without the return for a text without sentences.
ClarityOfAnyText(text, sentences) ==
  ClarityScored(Len(sentences), SentenceWords(sentences),
                PassiveMatchCount(text), ComplexWordCount(text))

ClarityOf(text, sentences) ==
  IF Len(sentences) = 0 THEN 0
  ELSE ClarityScored(Len(sentences), SentenceWords(sentences),
                     PassiveMatchCount(text), ComplexWordCount(text))

calculateClarityScore(text) == ClarityOf(text, SentenceMatches(text))

\* s.edited || s.content
EditedOrContent(s) == IF s.edited # <<>> THEN s.edited ELSE s.content

\* The metrics with the word counts subtracted the other way round.
MetricsOfDelta(original, editedText) ==
  [clarity |-> calculateClarityScore(editedText),
   wordReduction |-> WordCount(editedText) - WordCount(original),
   passiveVoiceCount |-> PassiveMatchCount(original),
   longSentenceCount |-> countLongSentences(original)]

\* calculateMetrics, given the edited text: the clarity score and the counting
\* fields (the Flesch-based fields readabilityGain and sentenceComplexity are
\* real-valued and are not part of this record).
MetricsOf(original, editedText) ==
  [clarity |-> calculateClarityScore(editedText),
   wordReduction |-> WordCount(original) - WordCount(editedText),
   passiveVoiceCount |-> PassiveMatchCount(original),
   longSentenceCount |-> countLongSentences(original)]

calculateMetrics(original, processed) ==
  MetricsOf(original,
            Join([k \in 1..Len(processed) |-> EditedOrContent(processed[k])], <<" ">>))

\* processed.flatMap(s => s.changes || [])
FlatChanges(processed) == Flat([k \in 1..Len(processed) |-> processed[k].changes])

\* The set of the elements of a sequence.
Range(seq) == {seq[k] : k \in 1..Len(seq)}

\* The positions at which a Change type occurs first, in order: the iteration
\* order of new Set(changes.map(c => c.type)).
FirstOfType(changes) ==
  SelectSeq(Positions(changes), LAMBDA k :
              \A j \in 1..(k - 1) : changes[j].type # changes[k].type)

\* The ruleTypes.forEach of generateSuggestions.
TypeLines(changes, firsts) ==
  [n \in 1..Len(firsts) |->
     <<"applied", changes[firsts[n]].type,
       Cardinality({k \in 1..Len(changes) : changes[k].type = changes[firsts[n]].type})>>]

\* generateSuggestions: one line per nonzero counting metric, then one line per
\* Change type in order of first occurrence (Set iteration order).  The line on
\* readabilityGain rests on a real-valued field and is not part of the list.
generateSuggestions(metrics, changes) ==
  (IF metrics.passiveVoiceCount > 0 THEN <<<<"passive", metrics.passiveVoiceCount>>>> ELSE <<>>)
    \o (IF metrics.longSentenceCount > 0 THEN <<<<"long", metrics.longSentenceCount>>>> ELSE <<>>)
    \o (IF metrics.wordReduction > 0 THEN <<<<"reduced", metrics.wordReduction>>>> ELSE <<>>)
    \o TypeLines(changes, FirstOfType(changes))

\* ------------------------------------------------------------------------
\* checkClarity (tools/checkClarity.ts)
\* ------------------------------------------------------------------------

\* text.split(/\s+/).filter(w => w.length > 0)
Words(text) == SelectSeq(SplitWs(text), LAMBDA w : w # <<>>)

Severities == {"high", "medium", "low"}

\* An entry of the issues list; its examples are display strings that no
\* score, count or statistic reads, and are not part of the record.
Issue(category, severity, count) ==
  [category |-> category, severity |-> severity, count |-> count]

\* The severity with a count that reaches the high threshold taken as high.
SeverityFrom(count, high, medium) ==
  IF count >= high THEN "high" ELSE IF count > medium THEN "medium" ELSE "low"

\* count > high ? 'high' : count > medium ? 'medium' : 'low'
Severity(count, high, medium) ==
  IF count > high THEN "high" ELSE IF count > medium THEN "medium" ELSE "low"

\* The patterns of checkPassiveVoice, each /\b...\b/gi.
checkPassivePatterns ==
  <<<<Alt({"was", "were"}), WsP, Cap("ed")>>,
    <<Alt({"has", "have", "had"}), WsP, Lit("been"), WsP, Cap("ed")>>,
    <<Alt({"is", "are", "am"}), WsP, Lit("being"), WsP, Cap("ed")>>,
    <<Lit("it"), WsP, Alt({"is", "was"}), WsP, Cap("ed"), WsP, Lit("that")>>>>

\* text.match(pattern).length for a pattern whose matches start with a word
\* that ends none of them, so that no two matches overlap.
MatchCount(text, pat) ==
  Cardinality({i \in 1..Len(text) : Match(text, i, pat).ok})

RECURSIVE MatchCounts(_, _, _)
MatchCounts(text, pats, n) ==
  IF n > Len(pats) THEN 0
  ELSE MatchCount(text, pats[n]) + MatchCounts(text, pats, n + 1)

PassiveIssue(count) == Issue("Passive Voice", Severity(count, 5, 2), count)

checkPassiveVoice(text) == PassiveIssue(MatchCounts(text, checkPassivePatterns, 1))

checkLongSentences(sentences) ==
  Issue("Long Sentences", Severity(CountLong(sentences), 5, 2), CountLong(sentences))

Alphabet == WordChars \ {"0", "1", "2", "3", "4", "5", "6", "7", "8", "9"}

vowels == {"a", "e", "i", "o", "u"}

\* word.toLowerCase().replace(/[^a-z]/g, '') as a sequence of letters, for a
\* word given as its tokens.
RECURSIVE LettersOf(_)
LettersOf(word) ==
  IF word = <<>> THEN <<>>
  ELSE SelectSeq(Chars(Lower(Head(word))), LAMBDA c : c \in Alphabet)
         \o LettersOf(Tail(word))

\* The loop of countSyllables: the vowels that follow no vowel.
VowelGroups(w) ==
  Cardinality({i \in 1..Len(w) : w[i] \in vowels /\ (i = 1 \/ w[i - 1] \notin vowels)})

\* if (word.endsWith('e') && count > 1) count--
SilentE(w, count) == IF w[Len(w)] = "e" /\ count > 1 THEN count - 1 ELSE count

\* if (word.endsWith('le') && !vowels.includes(word[word.length - 3])) count++
FinalLe(w, count) ==
  IF /\ Len(w) >= 2 /\ w[Len(w) - 1] = "l" /\ w[Len(w)] = "e"
     /\ (Len(w) = 2 \/ w[Len(w) - 2] \notin vowels)
  THEN count + 1 ELSE count

SyllablesOf(w) ==
  IF w = <<>> THEN 0 ELSE Max(1, FinalLe(w, SilentE(w, VowelGroups(w))))

countSyllables(word) == SyllablesOf(LettersOf(word))

\* cleaned.length > 12 || countSyllables(cleaned) > 4
IsComplex(word) == Len(LettersOf(word)) > 12 \/ countSyllables(word) > 4

\* [...new Set(complexWords)].length
UniqueComplex(words) ==
  Cardinality({words[k] : k \in {n \in 1..Len(words) : IsComplex(words[n])}})

ComplexIssue(count) == Issue("Complex Vocabulary", Severity(count, 20, 10), count)

checkComplexWords(words) == ComplexIssue(UniqueComplex(words))

jargonTerms ==
  <<<<"paradigm">>, <<"framework">>, <<"utilize">>, <<"implement">>, <<"facilitate">>,
    <<"leverage">>, <<"synergy">>, <<"holistic">>, <<"robust">>,
    <<"cutting", "-", "edge">>, <<"state", "-", "of", "-", "the", "-", "art">>,
    <<"best", "-", "of", "-", "breed">>, <<"game", "-", "changing">>, <<"disruptive">>,
    <<"transformative">>, <<"innovative">>, <<"revolutionary">>, <<"groundbreaking">>>>

\* text.match(new RegExp(`\\b${term}\\b`, 'gi')).length
PhraseCount(text, pat) == Cardinality({i \in 1..Len(text) : PhraseAt(text, i, pat)})

RECURSIVE PhraseCounts(_, _, _)
PhraseCounts(text, terms, n) ==
  IF n = 0 THEN 0 ELSE PhraseCount(text, terms[n]) + PhraseCounts(text, terms, n - 1)

JargonIssue(count) == Issue("Academic Jargon", Severity(count, 10, 5), count)

checkJargon(text) == JargonIssue(PhraseCounts(text, jargonTerms, Len(jargonTerms)))

clarityRedundantPhrases ==
  {<<"absolutely", " ", "essential">>, <<"actual", " ", "fact">>,
   <<"advance", " ", "planning">>, <<"basic", " ", "fundamentals">>,
   <<"close", " ", "proximity">>, <<"completely", " ", "eliminate">>,
   <<"end", " ", "result">>, <<"final", " ", "outcome">>, <<"free", " ", "gift">>,
   <<"future", " ", "plans">>, <<"past", " ", "history">>,
   <<"personal", " ", "opinion">>, <<"repeat", " ", "again">>, <<"true", " ", "fact">>,
   <<"unexpected", " ", "surprise">>, <<"very", " ", "unique">>}

RedundancyIssue(count) == Issue("Redundant Phrases", Severity(count, 5, 2), count)

\* The phrases that regex.test(text) finds.
checkRedundancy(text) ==
  RedundancyIssue(Cardinality({phrase \in clarityRedundantPhrases :
                                 \E i \in 1..Len(text) : PhraseAt(text, i, phrase)}))

clauseWords ==
  {"which", "that", "who", "whom", "whose", "where", "when", "while", "although",
   "because", "since", "if", "unless"}

\* matches && matches.length > 2
HasManyClauses(sentence) ==
  Cardinality({i \in 1..Len(sentence) : Lower(sentence[i]) \in clauseWords}) > 2

ClausesIssue(count) == Issue("Multiple Clauses", Severity(count, 5, 2), count)

checkMultipleClauses(sentences) ==
  ClausesIssue(Cardinality({k \in 1..Len(sentences) : HasManyClauses(sentences[k])}))

\* A number of the statistics block: finite (v), NaN or Infinity.
Finite(v) == [kind |-> "finite", v |-> v]

NaN == [kind |-> "NaN", v |-> 0]

Infinity == [kind |-> "Infinity", v |-> 0]

\* Math.round(n / d) = floor(n / d + 0.5), for d > 0.
Round(n, d) == (2 * n + d) \div (2 * d)

\* Math.round(n / d * scale) with the results JavaScript gives for d = 0.
RoundedRatio(n, d, scale) ==
  IF d > 0 THEN Finite(Round(n * scale, d)) ELSE IF n = 0 THEN NaN ELSE Infinity

\* value > limit, false for NaN.
Above(value, limit) ==
  value.kind = "Infinity" \/ (value.kind = "finite" /\ value.v > limit)

\* words.reduce((sum, word) => sum + countSyllables(word), 0)
TotalSyllables(words) == Sum([k \in 1..Len(words) |-> countSyllables(words[k])])

\* 200 * sentences * words * fleschScore, where a count of 0 leaves its
\* average at 0 and stands as 1 in the product.  fleschScore is
\* 206.835 - 1.015 * avgWordsPerSentence - 84.6 * avgSyllablesPerWord, and
\* 200 times its factors are 41367, 203 and 16920.
FleschScaled(s, w, syllables) ==
  41367 * Max(s, 1) * Max(w, 1)
    - (IF s > 0 THEN 203 * w * Max(w, 1) ELSE 0)
    - (IF w > 0 THEN 16920 * syllables * Max(s, 1) ELSE 0)

\* Math.max(0, Math.min(100, Math.round(fleschScore)))
ReadabilityScore(s, w, syllables) ==
  Max(0, Min(100, Round(FleschScaled(s, w, syllables), 200 * Max(s, 1) * Max(w, 1))))

statisticsJargon ==
  <<<<"paradigm">>, <<"framework">>, <<"utilize">>, <<"implement">>, <<"facilitate">>>>

\* The statistics block, given the counts; averageSentenceLength and
\* jargonDensity hold one decimal and are kept in tenths.
Statistics(s, w, passiveCount, complexCount, syllables, jargonCount) ==
  [averageSentenceLength |-> IF s > 0 THEN Finite(Round(w * 10, s)) ELSE Finite(0),
   passiveVoicePercentage |-> RoundedRatio(passiveCount, s, 100),
   complexWordPercentage |-> RoundedRatio(complexCount, w, 100),
   readabilityScore |-> Finite(ReadabilityScore(s, w, syllables)),
   jargonDensity |-> RoundedRatio(jargonCount, w, 1000)]

calculateStatistics(text, sentences, words) ==
  Statistics(Len(sentences), Len(words), PassiveMatchCount(text),
             Cardinality({k \in 1..Len(words) : countSyllables(words[k]) > 3}),
             TotalSyllables(words),
             PhraseCounts(text, statisticsJargon, Len(statisticsJargon)))

\* The issues.forEach of the score.
RECURSIVE IssuePenalty(_)
IssuePenalty(issues) ==
  IF issues = <<>> THEN 0
  ELSE (CASE Head(issues).severity = "high" -> 15
          [] Head(issues).severity = "medium" -> 8
          [] Head(issues).severity = "low" -> 3
          [] OTHER -> 0)
       + IssuePenalty(Tail(issues))

StatisticsPenalty(statistics) ==
  (IF Above(statistics.averageSentenceLength, 250) THEN 10 ELSE 0)
    + (IF Above(statistics.passiveVoicePercentage, 20) THEN 10 ELSE 0)
    + (IF Above(statistics.complexWordPercentage, 15) THEN 5 ELSE 0)
    + (IF statistics.readabilityScore.v < 50 THEN 10 ELSE 0)
    + (IF Above(statistics.jargonDensity, 50) THEN 5 ELSE 0)

\* The score without Math.max(0, ...).
ScoreUnfloored(issues, statistics) ==
  Min(100, 100 - IssuePenalty(issues) - StatisticsPenalty(statistics))

\* calculateClarityScore of checkClarity.ts
ScoreOf(issues, statistics) ==
  Max(0, Min(100, 100 - IssuePenalty(issues) - StatisticsPenalty(statistics)))

\* The result of checkClarity; the recommendations are display strings made
\* from the issues and the statistics and are not part of the record.
ClarityMetrics(issues, statistics) ==
  [score |-> ScoreOf(issues, statistics),
   issues |-> SelectSeq(issues, LAMBDA i : i.count > 0),
   statistics |-> statistics]

ClarityChecked(text, sentences, words) ==
  ClarityMetrics(<<checkPassiveVoice(text), checkLongSentences(sentences),
                   checkComplexWords(words), checkJargon(text),
                   checkRedundancy(text), checkMultipleClauses(sentences)>>,
                 calculateStatistics(text, sentences, words))

checkClarity(text) == ClarityChecked(text, SentenceMatches(text), Words(text))


\* ------------------------------------------------------------------------
\* StructureRules.  The accumulator this.changes of the instance is the
\* parameter changes of an operation; the operation returns its new value.
\* ------------------------------------------------------------------------

\* Position i of text lies in a run of two or more line ends (/\n\n+/).
InBreak(text, i) ==
  /\ text[i] = "\n"
  /\ \/ (i > 1 /\ text[i - 1] = "\n")
     \/ (i < Len(text) /\ text[i + 1] = "\n")

Breaks(text) == [i \in 1..Len(text) |-> InBreak(text, i)]

\* The piece of a split that starts at s; sep[k] tells whether position k
\* belongs to a separator.
PieceFrom(text, sep, s) ==
  SubSeq(text, s,
         OrEnd(FirstFrom(s, Len(text), LAMBDA k : sep[k]), s, Len(text)) - 1)

\* An empty piece when position i of a nonempty text belongs to a separator.
EdgePiece(text, sep, i) ==
  IF text # <<>> /\ sep[i] THEN << <<>> >> ELSE <<>>

PiecesAt(text, sep, starts) ==
  EdgePiece(text, sep, 1) \o [n \in 1..Len(starts) |-> PieceFrom(text, sep, starts[n])]
    \o EdgePiece(text, sep, Len(text))

\* text.split(separator): the pieces between the separators; a separator at
\* the start or at the end of the text leaves an empty piece there.
SplitBy(text, sep) ==
  IF text = <<>> THEN << <<>> >>
  ELSE PiecesAt(text, sep, SelectSeq(Positions(text), LAMBDA i :
                             ~sep[i] /\ (i = 1 \/ sep[i - 1])))

\* text.split(/\n\n+/)
SplitParagraphs(text) == SplitBy(text, Breaks(text))

\* text.includes(word) for a word without blanks: one token holds the word.
HasWord(text, word) == \E i \in 1..Len(text) : word \in KeywordsIn(text[i])

\* text.includes(phrase) for words separated by single blanks: a token ends
\* with the first word, the next tokens are the blanks and the inner words, and
\* a token starts with the last word.
HasPhrase(text, phrase) ==
  \E i \in 1..(Len(text) - Len(phrase) + 1) :
     /\ phrase[1] \in KeywordEnds(text[i])
     /\ \A k \in 2..(Len(phrase) - 1) : text[i + k - 1] = phrase[k]
     /\ phrase[Len(phrase)] \in KeywordStarts(text[i + Len(phrase) - 1])

\* text.includes(key)
Includes(text, key) ==
  IF Len(key) = 1 THEN HasWord(text, key[1]) ELSE HasPhrase(text, key)

\* keys.some(key => text.includes(key))
IncludesSome(text, keys) == \E key \in keys : Includes(text, key)

problemKeywords ==
  {<<"problem">>, <<"issue">>, <<"challenge">>, <<"difficult">>, <<"limitation">>,
   <<"gap">>, <<"lacking">>, <<"insufficient">>, <<"inadequate">>, <<"fails">>}

\* paragraphs[0] || ''
extractFirstParagraph(text) == SplitParagraphs(text)[1]

checkFirstParagraphProblem(text) ==
  IncludesSome(LowerAll(extractFirstParagraph(text)), problemKeywords)

\* The obviousPatterns of hasObviousStatements: literal, case-insensitive.
obviousStatements ==
  {<<"computers", " ", "are", " ", "everywhere">>,
   <<"the", " ", "internet", " ", "has", " ", "changed">>,
   <<"in", " ", "today's", " ", "world">>,
   <<"as", " ", "we", " ", "all", " ", "know">>,
   <<"it", " ", "is", " ", "well", " ", "known", " ", "that">>,
   <<"everyone", " ", "knows">>,
   <<"clearly">>, <<"obviously">>,
   <<"of", " ", "course">>}

hasObviousStatements(text) == IncludesSome(LowerAll(text), obviousStatements)

keyIdeaIndicators ==
  {<<"key", " ", "insight">>, <<"main", " ", "idea">>,
   <<"core", " ", "contribution">>, <<"novel", " ", "approach">>,
   <<"our", " ", "approach">>, <<"we", " ", "propose">>, <<"we", " ", "present">>,
   <<"we", " ", "introduce">>, <<"this", " ", "paper", " ", "presents">>,
   <<"this", " ", "work">>}

identifiesKeyIdea(text) == IncludesSome(LowerAll(text), keyIdeaIndicators)

comparisonWords ==
  {<<"unlike">>, <<"compared", " ", "to">>, <<"in", " ", "contrast">>,
   <<"whereas">>, <<"while">>, <<"alternative">>, <<"existing">>, <<"previous">>,
   <<"traditional">>, <<"conventional">>}

mentionsAlternatives(text) == IncludesSome(LowerAll(text), comparisonWords)

\* The checks of validateIntroduction.
IntroductionChecks(text) ==
  [problemInFirstParagraph |-> checkFirstParagraphProblem(text),
   hasContributions |-> Includes(LowerAll(text), <<"contribution">>),
   avoidGrandmothering |-> ~hasObviousStatements(text),
   hasSilverBullet |-> identifiesKeyIdea(text),
   comparesApproaches |-> mentionsAlternatives(text)]

\* One issue when check does not hold; an issue is its message and the
\* numbers the message holds.
IssueUnless(check, issue) == IF check THEN <<>> ELSE <<issue>>

\* The issues of a validation that reports the first check only.
ProblemIssueOnly(checks) ==
  IssueUnless(checks.problemInFirstParagraph,
              <<"Introduction should state the problem in the first paragraph">>)

\* The issues of validateIntroduction (structure.rules.ts:15-30).
IntroductionIssues(checks) ==
  IssueUnless(checks.problemInFirstParagraph,
              <<"Introduction should state the problem in the first paragraph">>)
    \o IssueUnless(checks.hasContributions,
                   <<"Introduction should clearly state the contributions">>)
    \o IssueUnless(checks.avoidGrandmothering,
                   <<"Remove obvious or well-known statements">>)
    \o IssueUnless(checks.hasSilverBullet,
                   <<"Clearly identify the key idea or silver bullet">>)
    \o IssueUnless(checks.comparesApproaches,
                   <<"Compare your approach with alternatives">>)

\* word.length > 5
MinTopicLength == 5

\* extractTopics, before the slice: the words of the text that count as topics.
TopicWords(words) ==
  SelectSeq(words, LAMBDA word :
              /\ TextLen(word) > MinTopicLength
              /\ word \notin {<<"which">>, <<"where">>, <<"while">>, <<"through">>,
                              <<"because">>})

extractTopics(text) == TopicWords(SplitWs(LowerAll(text)))

ProblemStatementOf(topics) ==
  IF Len(topics) > 0
  THEN <<"The", " ", "challenge", " ", "of", " ">> \o topics[1]
         \o <<" ", "remains", " ", "unsolved", ".">>
  ELSE <<"This", " ", "addresses", " ", "a", " ", "critical", " ", "problem",
         " ", "in", " ", "the", " ", "field", ".">>

generateProblemStatement(context) == ProblemStatementOf(extractTopics(context))

\* The text a fix works on and the accumulator of the instance.
Fixed(fixed, changes) == [fixed |-> fixed, changes |-> changes]

\* A fix that sets the text to fixed and pushes a Change for it.
PushedFix(s, fixed, rule, before) ==
  Fixed(fixed, Append(s.changes, MkChange(rule, "structure", before, fixed)))

\* paragraphs with the problem statement put before paragraphs[0], joined.
WithProblemStatement(paragraphs) ==
  Join(<<generateProblemStatement(paragraphs[1]) \o <<" ">> \o paragraphs[1]>>
         \o Tail(paragraphs),
       <<"\n", "\n">>)

\* autoFixIntroduction, the problem statement (structure.rules.ts:97-111).
ProblemStep(s, text, checks) ==
  IF ~checks.problemInFirstParagraph
  THEN PushedFix(s, WithProblemStatement(SplitParagraphs(s.fixed)),
                 "Introduction Structure", text)
  ELSE s

contributionText ==
  <<"\n", "\n", "The", " ", "main", " ", "contributions", " ", "of", " ",
    "this", " ", "work", " ", "are", ":", " ", "First", ",", " ", "we", " ",
    "provide", " ", "a", " ", "novel", " ", "approach", ".", " ", "Second",
    ",", " ", "we", " ", "demonstrate", " ", "improved", " ", "performance",
    ".", " ", "Third", ",", " ", "we", " ", "validate", " ", "through", " ",
    "extensive", " ", "evaluation", ".", "\n", "\n">>

\* The paragraphs of addContributionsSection: the Change is pushed only when
\* there are two paragraphs or more.
ContributionsInto(s, paragraphs) ==
  IF Len(paragraphs) >= 2
  THEN PushedFix(s,
                 Join(<<paragraphs[1], contributionText>> \o Tail(paragraphs),
                      <<"\n", "\n">>),
                 "Contributions Section", s.fixed)
  ELSE Fixed(s.fixed \o contributionText, s.changes)

addContributionsSection(s) == ContributionsInto(s, SplitParagraphs(s.fixed))

\* autoFixIntroduction, the contributions (structure.rules.ts:113-115).
ContributionsStep(s, checks) ==
  IF ~checks.hasContributions THEN addContributionsSection(s) ELSE s

\* The obviousPatterns of removeObviousStatements, each /phrase[^.]*\./gi.
obviousPatterns ==
  [rule |-> "Remove Obvious Statements", type |-> "structure",
   engine |-> "structure",
   steps |-> <<[k |-> "obvious", pat |-> <<"in", " ", "today's", " ", "world">>],
               [k |-> "obvious", pat |-> <<"as", " ", "we", " ", "all", " ", "know">>],
               [k |-> "obvious",
                pat |-> <<"it", " ", "is", " ", "well", " ", "known", " ", "that">>],
               [k |-> "obvious", pat |-> <<"obviously">>],
               [k |-> "obvious", pat |-> <<"clearly">>]>>,
   counted |-> 5]

\* The end of removeObviousStatements with the replaced text as before.
ObviousRemovedFromReplaced(s, r) ==
  IF r.hit
  THEN PushedFix(s, Trim(CollapseWs(r.text)), "Remove Obvious Statements", r.text)
  ELSE Fixed(r.text, s.changes)

\* The end of removeObviousStatements, given the outcome r of the replacements.
ObviousRemoved(s, r) ==
  IF r.hit
  THEN PushedFix(s, Trim(CollapseWs(r.text)), "Remove Obvious Statements", s.fixed)
  ELSE Fixed(r.text, s.changes)

removeObviousStatements(s) ==
  ObviousRemoved(s, ApplyRange(s.fixed, obviousPatterns, 1, Len(obviousPatterns.steps)))

autoFixIntroduction(text, checks, changes) ==
  removeObviousStatements(
    ContributionsStep(ProblemStep(Fixed(text, changes), text, checks), checks))

\* issues.length > 0 ? issues : undefined, as a sequence that holds the array
\* in the first case and nothing in the second.
IssuesOrUndefined(issues) == IF Len(issues) > 0 THEN <<issues>> ELSE <<>>

\* The ValidationResult; changes is this.changes, the accumulator itself.
ValidationResult(checks, issues, fix) ==
  [valid |-> \A name \in DOMAIN checks : checks[name],
   checks |-> checks,
   issues |-> IssuesOrUndefined(issues),
   fixedText |-> fix.fixed,
   changes |-> fix.changes]

IntroductionValidated(text, checks, changes) ==
  ValidationResult(checks, IntroductionIssues(checks),
                   autoFixIntroduction(text, checks, changes))

validateIntroduction(text, changes) ==
  IntroductionValidated(text, IntroductionChecks(text), changes)

getSynonyms(word) ==
  CASE word = "problem" ->
         {"problem", "challenge", "issue", "difficulty", "limitation"}
    [] word = "approach" ->
         {"approach", "method", "technique", "solution", "system"}
    [] word = "result" ->
         {"result", "evaluation", "performance", "improvement", "achieve"}
    [] OTHER -> {word}

hasAllComponents(text, components) ==
  \A component \in components :
     \E synonym \in getSynonyms(component) : HasWord(LowerAll(text), synonym)

AbstractMinWords == 100

AbstractMaxWords == 250

\* The checks of validateAbstract; includes is case-sensitive here.
AbstractChecks(text, wordCount) ==
  [independent |-> /\ ~Includes(text, <<"this", " ", "paper">>)
                   /\ ~Includes(text, <<"we", " ", "present">>)
                   /\ ~Includes(text, <<"this", " ", "work">>),
   selfContained |-> hasAllComponents(text, {"problem", "approach", "result"}),
   correctLength |-> wordCount >= AbstractMinWords /\ wordCount <= AbstractMaxWords]

AbstractIssues(checks, wordCount) ==
  IssueUnless(checks.independent,
              <<"Abstract should be self-contained without references to this paper">>)
    \o IssueUnless(checks.selfContained,
                   <<"Abstract must include problem, approach, and results">>)
    \o IssueUnless(checks.correctLength,
                   <<"Abstract should be 100-250 words, currently", wordCount>>)

\* The three replacements restructureAbstract starts with, each /phrase/gi.
selfReferences ==
  [rule |-> "none", type |-> "structure", engine |-> "structure",
   steps |-> <<[k |-> "literal", pat |-> <<"this", " ", "paper">>,
                rep |-> <<"this", " ", "research">>],
               [k |-> "literal", pat |-> <<"we", " ", "present">>,
                rep |-> <<"introduces">>],
               [k |-> "literal", pat |-> <<"this", " ", "work">>,
                rep |-> <<"the", " ", "study">>]>>,
   counted |-> 0]

\* `${components.problem} ${components.approach} ${components.results}`
generateAbstractComponents ==
  <<"This", " ", "research", " ", "addresses", " ", "a", " ", "significant",
    " ", "challenge", " ", "in", " ", "the", " ", "field", ".", " ",
    "A", " ", "novel", " ", "approach", " ", "is", " ", "proposed", " ",
    "that", " ", "combines", " ", "innovative", " ", "techniques", ".", " ",
    "Evaluation", " ", "demonstrates", " ", "substantial", " ",
    "improvements", " ", "over", " ", "existing", " ", "methods", ".">>

\* The sentence expandAbstract appends (structure.rules.ts:286).
expansion ==
  <<" ", "The", " ", "comprehensive", " ", "evaluation", " ", "validates",
    " ", "the", " ", "effectiveness", " ", "of", " ", "the", " ",
    "proposed", " ", "approach", " ", "through", " ", "rigorous", " ",
    "testing", " ", "and", " ", "comparison", " ", "with", " ", "state",
    "-", "of", "-", "the", "-", "art", " ", "methods", ".">>

\* expandAbstract with the sentence appended a second time.
ExpandedTwice(text) == text \o expansion \o expansion

\* expandAbstract (structure.rules.ts:285-288)
expandAbstract(text) == text \o expansion

\* restructureAbstract, the template (structure.rules.ts:248-258).
ComponentsStep(s, text, checks) ==
  IF ~checks.selfContained
  THEN PushedFix(s, generateAbstractComponents, "Abstract Structure", text)
  ELSE s

\* The length step with the cut left without its closing period.
LengthStepWithoutPeriod(s, text, words) ==
  IF Len(words) > AbstractMaxWords
  THEN PushedFix(s, Join(Take(words, AbstractMaxWords), <<" ">>),
                 "Abstract Length", text)
  ELSE IF Len(words) < AbstractMinWords
  THEN Fixed(expandAbstract(s.fixed), s.changes)
  ELSE s

\* restructureAbstract, the length (structure.rules.ts:260-272), given the
\* words of the text so far.
LengthStep(s, text, words) ==
  IF Len(words) > AbstractMaxWords
  THEN PushedFix(s, Join(Take(words, AbstractMaxWords), <<" ">>) \o <<".">>,
                 "Abstract Length", text)
  ELSE IF Len(words) < AbstractMinWords
  THEN Fixed(expandAbstract(s.fixed), s.changes)
  ELSE s

LengthFixed(s, text) == LengthStep(s, text, SplitWs(s.fixed))

restructureAbstract(text, checks, changes) ==
  LengthFixed(
    ComponentsStep(Fixed(ApplyRange(text, selfReferences, 1,
                                    Len(selfReferences.steps)).text,
                         changes),
                   text, checks),
    text)

AbstractValidated(text, checks, wordCount, changes) ==
  ValidationResult(checks, AbstractIssues(checks, wordCount),
                   restructureAbstract(text, checks, changes))

AbstractCounted(text, wordCount, changes) ==
  AbstractValidated(text, AbstractChecks(text, wordCount), wordCount, changes)

validateAbstract(text, changes) == AbstractCounted(text, WordCount(text), changes)

\* s.title.toLowerCase().includes(word)
TitleIncludes(section, word) == Includes(LowerAll(section.title), <<word>>)

\* findOverviewPosition, given the first section (0: none) whose title holds
\* "introduction" or "abstract".
OverviewPositionAt(k) == IF k # 0 THEN k ELSE 1

findOverviewPosition(sections) ==
  OverviewPositionAt(
    FirstFrom(1, Len(sections), LAMBDA k :
                TitleIncludes(sections[k], "introduction")
                  \/ TitleIncludes(sections[k], "abstract")))

\* `${i + 2}` for the index i of a section name.
Numeral(n) ==
  CASE n = 2 -> "2" [] n = 3 -> "3" [] n = 4 -> "4" [] n = 5 -> "5" [] n = 6 -> "6"

\* slice(0, 5)
MaxOverviewNames == 5

\* The sentences `Section ${i + 2} covers ${name.toLowerCase()}` of
\* generateOverview.
OverviewLines(names) ==
  [n \in 1..Len(names) |->
     <<"Section", " ", Numeral(n + 1), " ", "covers", " ">> \o LowerAll(names[n])]

\* The content of the overview for the titles of the sections.
OverviewContent(titles) ==
  <<"This", " ", "document", " ", "is", " ", "organized", " ", "as", " ",
    "follows", ".", " ">>
    \o Join(OverviewLines(Take(titles, IF Len(titles) < MaxOverviewNames
                                       THEN Len(titles) ELSE MaxOverviewNames)),
            <<".", " ">>)
    \o <<".", " ", "The", " ", "document", " ", "concludes", " ", "with", " ",
         "a", " ", "summary", " ", "of", " ", "key", " ", "findings", " ", "and",
         " ", "future", " ", "directions", ".">>

\* The Section generateOverview returns for the content: it has neither
\* original nor changes, which are empty here.
OverviewSection(content) ==
  [title |-> <<"Overview">>, content |-> content, original |-> <<>>,
   edited |-> content, changes |-> <<>>]

TitlesOf(sections) == [n \in 1..Len(sections) |-> sections[n].title]

generateOverview(sections) ==
  OverviewSection(
    OverviewContent(
      TitlesOf(SelectSeq(sections, LAMBDA s : ~TitleIncludes(s, "abstract")))))

\* sections.splice(index, 0, overview)
Spliced(sections, index, overview) ==
  IF index >= Len(sections) THEN Append(sections, overview)
  ELSE Take(sections, index) \o <<overview>> \o Drop(sections, index)

\* The branch of insertOverviewSection for a list without an overview
\* (structure.rules.ts:296-306): the overview is spliced in and a Change pushed.
OverviewInserted(sections, changes) ==
  [sections |-> Spliced(sections, findOverviewPosition(sections),
                        generateOverview(sections)),
   changes |-> Append(changes,
                      MkChange("Overview Section", "structure",
                               <<"No", " ", "overview", " ", "section">>,
                               <<"Added", " ", "overview", " ", "section">>))]

\* insertOverviewSection: the sections and the accumulator afterwards.
insertOverviewSection(sections, changes) ==
  IF \E k \in 1..Len(sections) : TitleIncludes(sections[k], "overview")
  THEN [sections |-> sections, changes |-> changes]
  ELSE OverviewInserted(sections, changes)


\* ------------------------------------------------------------------------
\* generateTracking.ts: the tracking report.  The report is the record of
\* what the markdown text states; the readability scores and the character
\* counts, which are real-valued or need every character, are not part of it.
\* ------------------------------------------------------------------------

\* text.split(/\s+/).filter(word => word.length > 0).length
countWords(text) ==
  Cardinality({i \in 1..Len(text) :
                 text[i] \notin Ws /\ (i = 1 \/ text[i - 1] \in Ws)})

\* The groups of groupChangesByType for the types first met at firsts, in the
\* order of Object.entries.
GroupsAt(changes, firsts) ==
  [n \in 1..Len(firsts) |->
     [type |-> changes[firsts[n]].type,
      changes |-> SelectSeq(changes, LAMBDA c : c.type = changes[firsts[n]].type)]]

groupChangesByType(changes) == GroupsAt(changes, FirstOfType(changes))

\* The positions at which a rule name occurs first, in order: the iteration
\* order of new Set(changes.map(c => c.rule)).
FirstOfRule(changes) ==
  SelectSeq(Positions(changes), LAMBDA k :
              \A j \in 1..(k - 1) : changes[j].rule # changes[k].rule)

\* The lines of the Applied Rules Summary.
RuleLines(changes, firsts) ==
  [n \in 1..Len(firsts) |->
     [rule |-> changes[firsts[n]].rule,
      count |-> Cardinality({k \in 1..Len(changes) :
                               changes[k].rule = changes[firsts[n]].rule})]]

\* generateTrackingMarkdown at the time now.
generateTrackingMarkdown(original, edited, changes, now) ==
  [generated |-> now,
   originalWords |-> countWords(original),
   editedWords |-> countWords(edited),
   totalEdits |-> Len(changes),
   changesByType |-> groupChangesByType(changes),
   original |-> original,
   edited |-> edited,
   rulesApplied |-> RuleLines(changes, FirstOfRule(changes))]

\* `edits_${timestamp}.md`
FileName(timestamp) == <<"edits_", timestamp, ".md">>

\* ------------------------------------------------------------------------
\* editDocument: the structure step and the result
\* ------------------------------------------------------------------------

\* section.edited = result.fixedText; section.changes = [...section.changes,
\* ...result.changes], where result.changes is the accumulator of the instance.
SectionValidated(section, result) ==
  [section |-> [section EXCEPT !.edited = result.fixedText,
                               !.changes = @ \o result.changes],
   changes |-> result.changes]

\* The first if of the forEach callback (editDocument.ts:21-27).
IntroductionStep(r) ==
  IF TitleIncludes(r.section, "introduction")
  THEN SectionValidated(r.section,
                        validateIntroduction(EditedOrContent(r.section), r.changes))
  ELSE r

\* The second if of the forEach callback (editDocument.ts:29-35).
AbstractStep(r) ==
  IF TitleIncludes(r.section, "abstract")
  THEN SectionValidated(r.section,
                        validateAbstract(EditedOrContent(r.section), r.changes))
  ELSE r

\* The forEach callback on one section, with the accumulator before it.
ValidateSection(section, changes) ==
  AbstractStep(IntroductionStep([section |-> section, changes |-> changes]))

\* processed.sections.forEach from section k on.
RECURSIVE ValidateFrom(_, _, _)
ValidatedAt(sections, k, r) ==
  ValidateFrom([sections EXCEPT ![k] = r.section], k + 1, r.changes)

ValidateFrom(sections, k, changes) ==
  IF k > Len(sections) THEN [sections |-> sections, changes |-> changes]
  ELSE ValidatedAt(sections, k, ValidateSection(sections[k], changes))

ValidateSections(r) == ValidateFrom(r.sections, 1, r.changes)

\* The structure step of editDocument on a new StructureRules instance: the
\* sections afterwards and the accumulator of the instance.
StructureStep(type, sections) ==
  IF type = "full_paper"
  THEN ValidateSections(insertOverviewSection(sections, <<>>))
  ELSE [sections |-> sections, changes |-> <<>>]

\* The text of one section in fullEdited.
SectionText(s) ==
  IF s.title # <<"Content">> /\ s.title # <<"Document">>
  THEN <<"#", " ">> \o s.title \o <<"\n", "\n">> \o EditedOrContent(s)
  ELSE EditedOrContent(s)

FullEdited(sections) ==
  Join([k \in 1..Len(sections) |-> SectionText(sections[k])], <<"\n", "\n">>)

\* The EditResult of the call with the locals e; tracking holds the report
\* when the output format asks for it and nothing otherwise.
EditResultOf(e) ==
  [rejected |-> FALSE,
   edited |-> e.fullEdited,
   metrics |-> [changes |-> Len(e.allChanges),
                wordReduction |-> e.metrics.wordReduction],
   suggestions |-> e.suggestions,
   tracking |-> IF e.format \in {"tracked_changes", "both"} THEN <<e.report>>
                ELSE <<>>]

\* The call of saveTrackingDocument without a try around it: the error of a
\* failed save is thrown on to the caller of editDocument.
RethrowSaveError(failed) == [logged |-> FALSE, thrown |-> failed]

\* What the try of editDocument around saveTrackingDocument leaves when the
\* save failed or not: the error is logged and not thrown again.
CatchSaveError(failed) == [logged |-> failed, thrown |-> FALSE]

\* ------------------------------------------------------------------------
\* Input documents
\* ------------------------------------------------------------------------

sPlain == <<"We", " ", "win", ".">>

sPassive == <<"Data", " ", "was", " ", "tested", " ", "by", " ", "us", ".">>

sVocab == <<"Thus", " ", "we", " ", "win", ".">>

sTense == <<"We", " ", "will", " ", "win", ".">>

sIdeas == <<"If", " ", "we", " ", "win", " ", "and", " ", "when", " ", "data",
            " ", "win", ".">>

sSpaces == <<"We", " ", " ", "win", ".">>

fragment == <<"we", " ", "win">>

Heading(title) == <<"#", " ", title>>

Lines(ls) == Join(ls, <<"\n">>)

Doc(type, text) == [type |-> type, text |-> text]

\* The example input of the README (README.md:123-126).
sDesigned == <<"The", " ", "system", " ", "was", " ", "designed", " ", "by", " ",
               "our", " ", "team", ".">>

sShouldBeNoted == <<"It", " ", "should", " ", "be", " ", "noted", " ", "that", " ",
                    "the", " ", "results", " ", "will", " ", "be", " ", "evaluated", ".">>

sExample == sDesigned \o <<" ">> \o sShouldBeNoted

\* A parenthetical that follows its word without a blank.
sGlued == <<"We", " ", "win", "(", "data", ")", ".">>

\* The documents an invocation is started with.
Docs ==
  { Doc("section", sPassive \o <<" ">> \o sVocab),
    Doc("section", sVocab \o <<" ">> \o sPassive),
    Doc("paragraph", sSpaces),
    Doc("paragraph", sExample),
    Doc("section", sGlued),
    Doc("paragraph", sPlain \o <<" ">> \o fragment),
    Doc("full_paper", <<>>),
    Doc("full_paper", Lines(<<Heading("Introduction"), sPassive,
                              Heading("Methods"), sVocab>>)),
    Doc("full_paper", Lines(<<Heading("Introduction"), sPlain,
                              Heading("Methods"), sTense \o <<" ">> \o sIdeas>>)),
    Doc("full_paper", Lines(<<Heading("Introduction"), sVocab \o <<" ">> \o sIdeas,
                              Heading("Methods"), fragment>>)),
    Doc("full_paper", Lines(<<sPlain, Heading("Introduction"), sPassive>>)),
    Doc("full_paper", Lines(<<Heading("Abstract"), sPlain,
                              Heading("Introduction"), sVocab,
                              Heading("Results"), sPassive>>)) }

\* The sections processDocument works on, per input document
\* (documentParser.ts:23-25), evaluated once.
SectionsOf ==
  [d \in Docs |->
     IF d.type = "full_paper" THEN extractSections(d.text)
     ELSE <<[title |-> <<"Content">>, content |-> d.text]>>]

Contents == UNION {{s.content : s \in Range(SectionsOf[d])} : d \in Docs}

\* The synchronous part of the sections.map callback, per section content
\* (documentParser.ts:29-32), evaluated once: the edited sentences and the
\* Changes pushed, in the order the rule calls pushed them.
EditedOf ==
  [c \in Contents |->
     LET split == splitIntoSentences(c)
         each == ProcessEach(split.sentences)
     IN  [texts |-> each.texts,
          log |-> Logged("clarity", split.changes) \o each.log]]

\* ------------------------------------------------------------------------
\* Inputs of the rule calls
\* ------------------------------------------------------------------------

sParen == <<"We", " ", "win", " ", "(", "data", ")", ".">>

sWeak == <<"We", " ", "are", " ", "able", " ", "to", " ", "win", ".">>

sRedundant == <<"The", " ", "end", " ", "result", " ", "wins", ".">>

sUtilize == <<"We", " ", "utilize", " ", "data", ".">>

sProblem == <<"The", " ", "problem", " ", "remains", ".">>

sObvious == <<"Clearly", " ", "we", " ", "win", ".">>

sContributions == <<"Our", " ", "contributions", " ", "win", ".">>

sKeyIdea == <<"We", " ", "propose", " ", "data", " ", "unlike", " ", "previous",
              " ", "data", ".">>

sComponents == <<"The", " ", "problem", " ", "needs", " ", "a", " ", "method",
                 " ", "with", " ", "a", " ", "result", ".">>

sSelfReference == <<"In", " ", "this", " ", "paper", " ", "we", " ", "win", ".">>

\* A short abstract that names all three components and refers to itself.
sPresented == <<"We", " ", "present", " ", "a", " ", "method", " ", "for", " ",
                "the", " ", "problem", " ", "with", " ", "a", " ", "result", ".">>

\* The texts the sentence-level rules are called with.
RuleTexts ==
  {sPlain, sPassive, sVocab, sTense, sSpaces, sParen, sWeak, sRedundant, sUtilize}

\* The texts validateIntroduction is called with.
IntroductionTexts ==
  {sPlain, sPassive, sProblem,
   sProblem \o <<"\n", "\n">> \o sPlain,
   sProblem \o <<" ">> \o sObvious \o <<" ">> \o sContributions,
   sProblem \o <<" ">> \o sContributions \o <<" ">> \o sKeyIdea,
   sPlain \o <<"\n", "\n">> \o sPassive,
   sObvious \o <<" ">> \o sContributions,
   sObvious}

\* n times the text, joined by blanks.
Repeated(text, n) == Join([k \in 1..n |-> text], <<" ">>)

\* Number of sentences of the abstracts of fitting and of excessive length.
FittingSentences == 13

ExcessiveSentences == 32

\* Number of two-word sentences of an abstract of excessive length that names
\* no component.
ExcessivePlainSentences == 126

\* The texts validateAbstract is called with.
AbstractTexts ==
  {sPlain, sComponents, sSelfReference, sPresented,
   Repeated(sComponents, FittingSentences),
   sSelfReference \o <<" ">> \o Repeated(sComponents, FittingSentences),
   Repeated(sComponents, ExcessiveSentences),
   Repeated(sPlain, ExcessivePlainSentences),
   sSelfReference \o <<" ">> \o Repeated(sComponents, ExcessiveSentences),
   sComponents \o <<"\n">>}

sNoteThat == <<"Note", " ", "that", " ", "if", " ", "we", " ", "win", " ", "and",
               " ", "data", " ", "win", ".">>

\* The sentences processSentence is called with.
SentenceTexts ==
  {<<>>, <<" ">>, sPlain, sPassive, sVocab, sTense, sIdeas, sSpaces, sParen, sWeak,
   sRedundant, sUtilize, sNoteThat, <<"Thus", " ">> \o sIdeas}

\* A processed section that no rule changed.
Unchanged(title, content) ==
  [title |-> title, content |-> content, original |-> content,
   edited |-> content, changes |-> <<>>]

\* The section lists insertOverviewSection is called with.
SectionLists ==
  {<<>>,
   <<Unchanged(<<"Methods">>, sPlain)>>,
   <<Unchanged(<<"Introduction">>, sProblem), Unchanged(<<"Methods">>, sPlain)>>,
   <<Unchanged(<<"Methods">>, sPlain), Unchanged(<<"Abstract">>, sComponents),
     Unchanged(<<"Results">>, sPlain)>>,
   <<Unchanged(<<"Overview">>, sPlain)>>,
   <<Unchanged(<<"Introduction">>, sProblem),
     Unchanged(<<"System", " ", "OVERVIEW">>, sPlain),
     Unchanged(<<"Methods">>, sPlain)>>}

\* The Change insertOverviewSection pushes.
OverviewChange == insertOverviewSection(<<>>, <<>>).changes

\* What the accumulator of a StructureRules instance holds before a call.
Accumulators == {<<>>, OverviewChange}


\* A sentence of 26 words with two jargon terms, a passive construction, three
\* clause words and the given redundant phrase.
Crowded(phrase) ==
  <<"We", " ", "utilize", " ", "the", " ", "framework", " ", "which", " ", "was", " ",
    "tested", " ", "that", " ", "we", " ", "win", " ", "if", " ", "we", " ", "win", " ",
    "and", " ", "we", " ", "win", " ", "and", " ", "we", " ", "win", " ", "and", " ",
    "we", " ", "win", " ", "and", " ", "we", " ", "win", " ", "with", " ", "the", " ">>
    \o phrase \o <<".">>

sCrowded ==
  Join(<<Crowded(<<"end", " ", "result">>), Crowded(<<"free", " ", "gift">>),
         Crowded(<<"true", " ", "fact">>), Crowded(<<"past", " ", "history">>),
         Crowded(<<"future", " ", "plans">>), Crowded(<<"very", " ", "unique">>)>>,
       <<" ">>)

\* A sentence with five words of at least ten characters.
sLongWords == <<"The", " ", "comprehensive", " ", "evaluation", " ", "demonstrates",
                " ", "substantial", " ", "improvements", ".">>

\* A passive construction that two patterns of checkPassiveVoice match.
sNoted == <<"It", " ", "was", " ", "noted", " ", "that", " ", "we", " ", "win", ".">>

\* Number of passive sentences of a text whose passive penalty alone exceeds
\* 100.
ManyPassiveSentences == 51

\* Number of sentences of five long words in a text with more long words than
\* the penalty counts.
ManyLongWordSentences == 5

sWeWin == <<"we", " ", "win">>

\* Number of two-word clauses in the second half of a long sentence.
TailClauses == 11

\* A sentence of 22 words.
sLongish == Repeated(sWeWin, TailClauses) \o <<".">>

\* A passive match and a word of ten characters, without a terminator.
sWasTested == <<"Data", " ", "was", " ", "tested", " ", "everywhere">>

\* The texts the clarity score is computed for.
ClarityTexts ==
  {<<>>, <<"tested">>, sPlain, sNoted, sCrowded, sLongish, sWasTested,
   Repeated(sLongWords, ManyLongWordSentences),
   Repeated(sPassive, ManyPassiveSentences)}
    \cup {Repeated(sPassive, k) : k \in {1, 2, 3, 5, 6}}

\* A sentence of 29 words with ", and" after its sixth word.
sSplittable ==
  Repeated(sWeWin, 3) \o <<",", " ", "and", " ">> \o Repeated(sWeWin, TailClauses) \o <<".">>

\* A sentence of 28 words with " , and" after its fourth word.
sShortHalf ==
  <<"We", " ", "win", " ", "and", " ", "win", " ", ",", " ", "and", " ">>
    \o Repeated(sWeWin, TailClauses) \o <<".">>

\* A sentence of 27 words with ", and" after its second word.
sTooShort ==
  <<"We", " ", "win", ",", " ", "and", " ">> \o Repeated(sWeWin, TailClauses + 1) \o <<".">>

\* A sentence of 26 words without a conjunction pattern.
sUnsplittable == Repeated(sWeWin, TailClauses + 2) \o <<".">>

\* A sentence of 28 words with ", word" after its sixth word.
SplitAfterSix(word) ==
  Repeated(sWeWin, 2) \o <<" ", "we", " ", "win", ",", " ", word, " ">>
    \o Repeated(sWeWin, TailClauses) \o <<".">>

sBut == SplitAfterSix("but")

sWhich == SplitAfterSix("which")

sWhile == SplitAfterSix("while")

\* The texts splitLongSentences is called with.
LongTexts ==
  {sPlain, sSplittable, sShortHalf, sTooShort, sUnsplittable, sBut, sWhich, sWhile}

\* ------------------------------------------------------------------------
\* processDocument on one DocumentProcessor instance
\* ------------------------------------------------------------------------

\* Number of processDocument invocations made on the instance.
MaxInvocations == 2

Invocations == 1..MaxInvocations

VARIABLES
  clarityChanges,   \* ClarityRules.changes of the instance
  styleChanges,     \* StyleRules.changes of the instance
  structureChanges, \* StructureRules.changes of the instance
  pc,               \* per invocation: "idle", "sync", "awaiting", "returned"
  doc,              \* per invocation: the (type, text) it was called with
  sections,         \* per invocation: the extracted sections
  nextSec,          \* per invocation: the section sections.map visits next
  texts,            \* per invocation and section: the edited sentences
  remaining,        \* per invocation and section: unresolved sentence promises
  outerRemaining,   \* per invocation: unresolved section promises
  processed,        \* per invocation and section: the processed Section
  result,           \* per invocation: the returned ProcessedDocument
  microtasks,       \* the promise job queue
  running,          \* the invocation whose synchronous part is running, or 0
  nextId,           \* history: number of Changes pushed so far
  produced,         \* history, per invocation: the Changes its rule calls pushed
  ruleIn,           \* the rule call made: the rule, its text, the accumulator
  ruleOut,          \* what the rule call returned and left in the accumulator
  applied,          \* history: the rule calls processSentence made, in call order
  edit,             \* the editDocument call in progress: its locals
  editResult,       \* what the last editDocument call returned
  clock,            \* the system clock, in milliseconds
  files,            \* the files of ./edits: per file name the call that wrote it
  calls,            \* number of editDocument calls made
  saved             \* history: per call that saved its report, the path returned

procVars == <<clarityChanges, styleChanges, structureChanges, pc, doc, sections,
              nextSec, texts, remaining, outerRemaining, processed, result,
              microtasks, running, nextId, produced>>

ruleVars == <<ruleIn, ruleOut, applied>>

editVars == <<edit, editResult, clock, files, calls, saved>>

vars == <<procVars, ruleVars, editVars>>

engines == <<clarityChanges, styleChanges, structureChanges>>

NoDoc == Doc("none", <<>>)

NoResult == [type |-> "none", sections |-> <<>>, changes |-> <<>>,
             metrics |-> calculateMetrics(<<>>, <<>>), suggestions |-> <<>>,
             trackingDocument |-> [totalChanges |-> 0, sectionsProcessed |-> 0]]

\* Number of editDocument calls made.
MaxEdits == 2

\* The last millisecond the clock reaches.
MaxClock == 2

OutputFormats == {"tracked_changes", "clean", "both"}

NoReport == generateTrackingMarkdown(<<>>, <<>>, <<>>, 0)

\* The locals of editDocument before a call.
NoEdit ==
  [phase |-> "idle", text |-> <<>>, type |-> "none", format |-> "none",
   sections |-> <<>>, structure |-> <<>>, fullEdited |-> <<>>,
   allChanges |-> <<>>, metrics |-> calculateMetrics(<<>>, <<>>),
   suggestions |-> <<>>, report |-> NoReport, filename |-> <<>>,
   saveFailed |-> FALSE, logged |-> FALSE]

NoEditResult ==
  [rejected |-> FALSE, edited |-> <<>>,
   metrics |-> [changes |-> 0, wordReduction |-> 0],
   suggestions |-> <<>>, tracking |-> <<>>]

\* The promise of editDocument rejected.
Rejected == [NoEditResult EXCEPT !.rejected = TRUE]

\* A call: the function, its arguments (the rule of a rule call, a text, a
\* section list) and what the accumulator of the instance holds.
Call(fn, rule, text, list, changes) ==
  [fn |-> fn, rule |-> rule, text |-> text, sections |-> list,
   changes |-> changes]

NoCall == Call("none", 0, <<>>, <<>>, <<>>)

NoOut == [done |-> FALSE, text |-> <<>>, changes |-> <<>>, valid |-> FALSE,
          issues |-> <<>>, value |-> <<>>]

\* A new DocumentProcessor, on which processDocument was not called yet.
NewProcessor ==
  /\ clarityChanges = <<>>
  /\ styleChanges = <<>>
  /\ structureChanges = <<>>
  /\ pc = [i \in Invocations |-> "idle"]
  /\ doc = [i \in Invocations |-> NoDoc]
  /\ sections = [i \in Invocations |-> <<>>]
  /\ nextSec = [i \in Invocations |-> 1]
  /\ texts = [i \in Invocations |-> <<>>]
  /\ remaining = [i \in Invocations |-> <<>>]
  /\ outerRemaining = [i \in Invocations |-> 0]
  /\ processed = [i \in Invocations |-> <<>>]
  /\ result = [i \in Invocations |-> NoResult]
  /\ microtasks = <<>>
  /\ running = 0
  /\ nextId = 0
  /\ produced = [i \in Invocations |-> <<>>]

\* No editDocument call was made and nothing was saved.
NoEdits ==
  /\ edit = NoEdit
  /\ editResult = NoEditResult
  /\ clock = 0
  /\ files = {}
  /\ calls = 0
  /\ saved = <<>>

Init ==
  /\ NewProcessor
  /\ ruleIn = NoCall
  /\ ruleOut = NoOut
  /\ applied = <<>>
  /\ NoEdits

Job(kind, i, k) == [kind |-> kind, inv |-> i, sec |-> k]

\* A pushed Change with its history fields: the order stamp id and the
\* invocation and section whose text the rule call worked on.
Stamp(entry, id, i, k) ==
  [rule |-> entry.change.rule, type |-> entry.change.type,
   before |-> entry.change.before, after |-> entry.change.after,
   id |-> id, inv |-> i, sec |-> k]

Stamped(log, i, k) == [n \in 1..Len(log) |-> Stamp(log[n], nextId + n, i, k)]

OfEngine(stamped, log, engine) ==
  SelectSeq(stamped, LAMBDA c : log[c.id - nextId].engine = engine)

\* clearAllChanges without its effect: the accumulators keep what they hold.
KeepAllChanges == UNCHANGED engines

\* clearAllChanges
ClearAllChanges ==
  /\ clarityChanges' = <<>>
  /\ styleChanges' = <<>>
  /\ structureChanges' = <<>>

\* collectChanges with the style Changes spread first.
collectStyleFirst == styleChanges \o clarityChanges \o structureChanges

\* collectChanges: the value it returns (it then calls clearAllChanges).
collectChanges == clarityChanges \o styleChanges \o structureChanges

\* processDocument up to the call of sections.map: the reset and the
\* segmentation.  overlap tells whether the caller may start the invocation
\* while another invocation is suspended.
StartInvocation(i, d, overlap) ==
  /\ running = 0
  /\ pc[i] = "idle"
  /\ \A j \in Invocations : j < i => pc[j] # "idle"
  /\ overlap \/ \A j \in Invocations : pc[j] \in {"idle", "returned"}
  /\ ClearAllChanges
  /\ pc' = [pc EXCEPT ![i] = "sync"]
  /\ doc' = [doc EXCEPT ![i] = d]
  /\ sections' = [sections EXCEPT ![i] = SectionsOf[d]]
  /\ running' = i
  /\ UNCHANGED <<nextSec, texts, remaining, outerRemaining, processed, result,
                 microtasks, nextId, produced>>

\* processDocument called by a caller that holds the instance.
Start(i, d, overlap) ==
  /\ StartInvocation(i, d, overlap)
  /\ UNCHANGED <<ruleVars, editVars>>

\* The effect of the sections.map callback up to its await on section k, given
\* the outcome each of its synchronous part: the Changes go to the accumulators
\* of their engines, the sentence promises to Promise.all.
PushSection(i, k, each, stamped) ==
  /\ clarityChanges' = clarityChanges \o OfEngine(stamped, each.log, "clarity")
  /\ styleChanges' = styleChanges \o OfEngine(stamped, each.log, "style")
  /\ UNCHANGED structureChanges
  /\ nextId' = nextId + Len(each.log)
  /\ produced' = [produced EXCEPT ![i] = @ \o stamped]
  /\ texts' = [texts EXCEPT ![i] = Append(@, each.texts)]
  /\ remaining' = [remaining EXCEPT ![i] = Append(@, Len(each.texts))]
  /\ microtasks' = microtasks \o
       (IF Len(each.texts) = 0 THEN <<Job("continue", i, k)>>
        ELSE [j \in 1..Len(each.texts) |-> Job("element", i, k)])
  /\ nextSec' = [nextSec EXCEPT ![i] = k + 1]

\* The body of the sections.map callback up to its await, for section k.
MapSectionWith(i, k, each) == PushSection(i, k, each, Stamped(each.log, i, k))

\* The body of the sections.map callback up to its await, for the next section:
\* splitIntoSentences, processSentence on every sentence, Promise.all.
MapSection(i) ==
  /\ running = i
  /\ nextSec[i] <= Len(sections[i])
  /\ MapSectionWith(i, nextSec[i], EditedOf[sections[i][nextSec[i]].content])
  /\ UNCHANGED <<pc, doc, sections, outerRemaining, processed, result, running>>
  /\ UNCHANGED <<ruleVars, editVars>>

\* The outer Promise.all over the section promises and its await: the
\* invocation is suspended and control returns to the caller.
AwaitSections(i) ==
  /\ running = i
  /\ nextSec[i] > Len(sections[i])
  /\ outerRemaining' = [outerRemaining EXCEPT ![i] = Len(sections[i])]
  /\ processed' = [processed EXCEPT ![i] =
                     [k \in 1..Len(sections[i]) |->
                        [title |-> sections[i][k].title,
                         content |-> sections[i][k].content,
                         original |-> <<>>, edited |-> <<>>, changes |-> <<>>]]]
  /\ microtasks' = IF sections[i] = <<>>
                   THEN Append(microtasks, Job("return", i, 0)) ELSE microtasks
  /\ pc' = [pc EXCEPT ![i] = "awaiting"]
  /\ running' = 0
  /\ UNCHANGED <<engines, doc, sections, nextSec, texts, remaining, result,
                 nextId, produced>>
  /\ UNCHANGED <<ruleVars, editVars>>

\* A sentence promise of the inner Promise.all is resolved; the last one
\* resolves the Promise.all and schedules the continuation of the callback.
ElementResolved ==
  /\ running = 0
  /\ microtasks # <<>>
  /\ Head(microtasks).kind = "element"
  /\ LET i == Head(microtasks).inv
         k == Head(microtasks).sec
     IN  /\ remaining' = [remaining EXCEPT ![i][k] = @ - 1]
         /\ microtasks' = IF remaining[i][k] = 1
                          THEN Append(Tail(microtasks), Job("continue", i, k))
                          ELSE Tail(microtasks)
  /\ UNCHANGED <<engines, pc, doc, sections, nextSec, texts, outerRemaining,
                 processed, result, running, nextId, produced>>
  /\ UNCHANGED <<ruleVars, editVars>>

\* The callback after its await: join, collectChanges, return the Section.
SectionContinuation ==
  /\ running = 0
  /\ microtasks # <<>>
  /\ Head(microtasks).kind = "continue"
  /\ LET i == Head(microtasks).inv
         k == Head(microtasks).sec
     IN  /\ processed' = [processed EXCEPT ![i][k] =
                            [title |-> sections[i][k].title,
                             content |-> sections[i][k].content,
                             original |-> sections[i][k].content,
                             edited |-> Join(texts[i][k], <<" ">>),
                             changes |-> collectChanges]]
         /\ ClearAllChanges
         /\ microtasks' = Append(Tail(microtasks), Job("section", i, k))
  /\ UNCHANGED <<pc, doc, sections, nextSec, texts, remaining, outerRemaining,
                 result, running, nextId, produced>>
  /\ UNCHANGED <<ruleVars, editVars>>

\* A section promise of the outer Promise.all is resolved; the last one
\* schedules the continuation of processDocument.
SectionResolved ==
  /\ running = 0
  /\ microtasks # <<>>
  /\ Head(microtasks).kind = "section"
  /\ LET i == Head(microtasks).inv
     IN  /\ outerRemaining' = [outerRemaining EXCEPT ![i] = @ - 1]
         /\ microtasks' = IF outerRemaining[i] = 1
                          THEN Append(Tail(microtasks), Job("return", i, 0))
                          ELSE Tail(microtasks)
  /\ UNCHANGED <<engines, pc, doc, sections, nextSec, texts, remaining,
                 processed, result, running, nextId, produced>>
  /\ UNCHANGED <<ruleVars, editVars>>

\* processDocument after its await: flatten, metrics, report, return.
Return ==
  /\ running = 0
  /\ microtasks # <<>>
  /\ Head(microtasks).kind = "return"
  /\ LET i == Head(microtasks).inv
         allChanges == FlatChanges(processed[i])
         metrics == calculateMetrics(doc[i].text, processed[i])
     IN  /\ result' = [result EXCEPT ![i] =
                         [type |-> doc[i].type,
                          sections |-> processed[i],
                          metrics |-> metrics,
                          trackingDocument |->
                            [totalChanges |-> Len(allChanges),
                             sectionsProcessed |-> Len(processed[i])],
                          changes |-> allChanges,
                          suggestions |-> generateSuggestions(metrics, allChanges)]]
         /\ pc' = [pc EXCEPT ![i] = "returned"]
  /\ microtasks' = Tail(microtasks)
  /\ UNCHANGED <<engines, doc, sections, nextSec, texts, remaining,
                 outerRemaining, processed, running, nextId, produced>>
  /\ UNCHANGED <<ruleVars, editVars>>

Step ==
  \/ \E i \in Invocations : MapSection(i)
  \/ \E i \in Invocations : AwaitSections(i)
  \/ ElementResolved
  \/ SectionContinuation
  \/ SectionResolved
  \/ Return

\* Invocations made one after the other: the caller awaits each result.
Next ==
  \/ \E i \in Invocations, d \in Docs : Start(i, d, FALSE)
  \/ Step

Spec == Init /\ [][Next]_vars

\* Invocations that the caller may start while an earlier one is suspended.
NextConcurrent ==
  \/ \E i \in Invocations, d \in Docs : Start(i, d, TRUE)
  \/ Step

SpecConcurrent == Init /\ [][NextConcurrent]_vars


\* ------------------------------------------------------------------------
\* editDocument: every call makes a DocumentProcessor and a StructureRules
\* instance of its own; the calls are made one after the other.
\* ------------------------------------------------------------------------

\* The processor of a call that returned is dropped.
DropProcessor ==
  /\ clarityChanges' = <<>>
  /\ styleChanges' = <<>>
  /\ structureChanges' = <<>>
  /\ pc' = [i \in Invocations |-> "idle"]
  /\ doc' = [i \in Invocations |-> NoDoc]
  /\ sections' = [i \in Invocations |-> <<>>]
  /\ nextSec' = [i \in Invocations |-> 1]
  /\ texts' = [i \in Invocations |-> <<>>]
  /\ remaining' = [i \in Invocations |-> <<>>]
  /\ outerRemaining' = [i \in Invocations |-> 0]
  /\ processed' = [i \in Invocations |-> <<>>]
  /\ result' = [i \in Invocations |-> NoResult]
  /\ microtasks' = <<>>
  /\ running' = 0
  /\ nextId' = 0
  /\ produced' = [i \in Invocations |-> <<>>]

\* editDocument up to its await of processDocument (editDocument.ts:11-15).
EditCall(d, format) ==
  /\ edit.phase \in {"idle", "returned"}
  /\ calls < MaxEdits
  /\ StartInvocation(1, d, FALSE)
  /\ edit' = [NoEdit EXCEPT !.phase = "processing", !.text = d.text,
                             !.type = d.type, !.format = format]
  /\ editResult' = NoEditResult
  /\ calls' = calls + 1
  /\ UNCHANGED <<ruleVars, clock, files, saved>>

\* The locals after the structure step st, fullEdited and the report.
Reported(st, fullEdited) ==
  edit' = [edit EXCEPT !.phase = "report",
                       !.sections = st.sections,
                       !.structure = st.changes,
                       !.fullEdited = fullEdited,
                       !.allChanges = result[1].changes,
                       !.metrics = result[1].metrics,
                       !.suggestions = result[1].suggestions,
                       !.report = generateTrackingMarkdown(edit.text, fullEdited,
                                                           result[1].changes, clock)]

Structured(st) == Reported(st, FullEdited(st.sections))

\* editDocument from the result of processDocument to its await of
\* generateTrackingMarkdown (editDocument.ts:17-49).
ProcessedDocument ==
  /\ edit.phase = "processing"
  /\ pc[1] = "returned"
  /\ Structured(StructureStep(edit.type, result[1].sections))
  /\ UNCHANGED <<procVars, ruleVars, editResult, clock, files, calls, saved>>

\* The end of editDocument (editDocument.ts:60-75) with the locals e, after
\* the try around the save, which failed or not, left caught.
Finished(e, failed, caught) ==
  /\ edit' = [e EXCEPT !.phase = "returned", !.saveFailed = failed,
                        !.logged = caught.logged]
  /\ editResult' = IF caught.thrown THEN Rejected ELSE EditResultOf(e)
  /\ DropProcessor

Finish(e, failed) == Finished(e, failed, CatchSaveError(failed))

\* editDocument after its await of generateTrackingMarkdown: it calls
\* saveTrackingDocument, which awaits fs.mkdir, or it returns
\* (editDocument.ts:51-54, generateTracking.ts:68).
ReportReady ==
  /\ edit.phase = "report"
  /\ IF edit.format # "clean"
     THEN /\ edit' = [edit EXCEPT !.phase = "mkdir"]
          /\ UNCHANGED <<procVars, editResult>>
     ELSE Finish(edit, FALSE)
  /\ UNCHANGED <<ruleVars, clock, files, calls, saved>>

\* fs.mkdir settled: saveTrackingDocument names the file after the clock and
\* awaits fs.writeFile, or it throws (generateTracking.ts:68-74, 77-80).
MkdirDone(ok) ==
  /\ edit.phase = "mkdir"
  /\ IF ok
     THEN /\ edit' = [edit EXCEPT !.phase = "write", !.filename = FileName(clock)]
          /\ UNCHANGED <<procVars, editResult>>
     ELSE Finish(edit, TRUE)
  /\ UNCHANGED <<ruleVars, clock, files, calls, saved>>

\* The files after writeFile wrote the report of the call to name.
Written(name) ==
  {f \in files : f.name # name} \cup {[name |-> name, by |-> calls]}

\* fs.writeFile settled: saveTrackingDocument returns the path, or it throws
\* (generateTracking.ts:74-80).
WriteDone(ok) ==
  /\ edit.phase = "write"
  /\ Finish(edit, ~ok)
  /\ files' = IF ok THEN Written(edit.filename) ELSE files
  /\ saved' = IF ok THEN Append(saved, [call |-> calls, path |-> edit.filename])
              ELSE saved
  /\ UNCHANGED <<ruleVars, clock, calls>>

\* A millisecond passes.
Tick ==
  /\ clock < MaxClock
  /\ clock' = clock + 1
  /\ UNCHANGED <<procVars, ruleVars, edit, editResult, files, calls, saved>>

NextEdit ==
  \/ \E d \in Docs, format \in OutputFormats : EditCall(d, format)
  \/ Step
  \/ ProcessedDocument
  \/ ReportReady
  \/ \E ok \in BOOLEAN : MkdirDone(ok)
  \/ \E ok \in BOOLEAN : WriteDone(ok)
  \/ Tick

SpecEdit == Init /\ [][NextEdit]_vars

\* ------------------------------------------------------------------------
\* Single calls of the rules
\* ------------------------------------------------------------------------

\* The rule calls: a sentence-level rule of a new engine on a text, or a
\* validation of a StructureRules instance on a text.
RuleCalls ==
  {Call("rule", n, text, <<>>, <<>>) :
     n \in 1..Len(sentenceRules), text \in RuleTexts}
    \cup {Call("validateIntroduction", 0, text, <<>>, acc) :
            text \in IntroductionTexts, acc \in Accumulators}
    \cup {Call("validateAbstract", 0, text, <<>>, acc) :
            text \in AbstractTexts, acc \in Accumulators}
    \cup {Call("processSentence", 0, text, <<>>, <<>>) : text \in SentenceTexts}
    \cup {Call("insertOverviewSection", 0, <<>>, list, acc) :
            list \in SectionLists, acc \in Accumulators}
    \cup {Call(fn, 0, text, <<>>, <<>>) :
            fn \in {"calculateClarityScore", "checkClarity"}, text \in ClarityTexts}
    \cup {Call("splitLongSentences", 0, text, <<>>, <<>>) : text \in LongTexts}

InitRules ==
  /\ NewProcessor
  /\ NoEdits
  /\ ruleIn \in RuleCalls
  /\ ruleOut = NoOut
  /\ applied = <<>>

\* The sentence-level rule returned r.
RuleReturned(r) ==
  ruleOut' = [done |-> TRUE, text |-> r.text, changes |-> ruleIn.changes \o r.changes,
              valid |-> TRUE, issues |-> <<>>, value |-> <<>>]

\* The validation returned r.
Validated(r) ==
  ruleOut' = [done |-> TRUE, text |-> r.fixedText, changes |-> r.changes,
              valid |-> r.valid, issues |-> r.issues, value |-> r.checks]

CallRule ==
  /\ ruleIn.fn = "rule"
  /\ ~ruleOut.done
  /\ RuleReturned(ApplyRule(ruleIn.text, sentenceRules[ruleIn.rule]))
  /\ UNCHANGED <<procVars, ruleIn, applied, editVars>>

CallValidateIntroduction ==
  /\ ruleIn.fn = "validateIntroduction"
  /\ ~ruleOut.done
  /\ Validated(validateIntroduction(ruleIn.text, ruleIn.changes))
  /\ UNCHANGED <<procVars, ruleIn, applied, editVars>>

CallValidateAbstract ==
  /\ ruleIn.fn = "validateAbstract"
  /\ ~ruleOut.done
  /\ Validated(validateAbstract(ruleIn.text, ruleIn.changes))
  /\ UNCHANGED <<procVars, ruleIn, applied, editVars>>

\* The call returned value and changed no text.
Returned(value) ==
  ruleOut' = [done |-> TRUE, text |-> ruleIn.text, changes |-> ruleIn.changes,
              valid |-> TRUE, issues |-> <<>>, value |-> value]

CallCalculateClarityScore ==
  /\ ruleIn.fn = "calculateClarityScore"
  /\ ~ruleOut.done
  /\ Returned(calculateClarityScore(ruleIn.text))
  /\ UNCHANGED <<procVars, ruleIn, applied, editVars>>

CallCheckClarity ==
  /\ ruleIn.fn = "checkClarity"
  /\ ~ruleOut.done
  /\ Returned(checkClarity(ruleIn.text))
  /\ UNCHANGED <<procVars, ruleIn, applied, editVars>>

\* splitLongSentences returned the joined sentences; value keeps what the
\* forEach pushed for each sentence.
SplitReturned(each, r) ==
  ruleOut' = [done |-> TRUE, text |-> r.text, changes |-> ruleIn.changes \o r.changes,
              valid |-> TRUE, issues |-> <<>>,
              value |-> [n \in 1..Len(each) |-> each[n].parts]]

SplitCalled(each) == SplitReturned(each, SplitLongJoined(each))

CallSplitLongSentences ==
  /\ ruleIn.fn = "splitLongSentences"
  /\ ~ruleOut.done
  /\ SplitCalled(SplitLongEach(MatchesOr(SentenceMatches(ruleIn.text), ruleIn.text)))
  /\ UNCHANGED <<procVars, ruleIn, applied, editVars>>

\* The sentence processSentence works on: the output of the last rule call.
Edited == IF applied = <<>> THEN ruleIn.text ELSE applied[Len(applied)].output

\* A rule call made by processSentence: the function, what it received and
\* what it returned.
Applied(fn, input, output) == [fn |-> fn, input |-> input, output |-> output]

\* processSentence on a blank sentence: it returns the sentence
\* (documentParser.ts:61).
ReturnBlank ==
  /\ ruleIn.fn = "processSentence"
  /\ ~ruleOut.done
  /\ Trim(ruleIn.text) = <<>>
  /\ ruleOut' = [NoOut EXCEPT !.done = TRUE, !.text = ruleIn.text]
  /\ UNCHANGED <<procVars, ruleIn, applied, editVars>>

\* The rule rule called on the sentence returned r.
RuleApplied(rule, r) ==
  /\ applied' = Append(applied, Applied(rule, Edited, r.text))
  /\ ruleOut' = [ruleOut EXCEPT !.text = r.text, !.changes = @ \o r.changes]

\* The next of the calls edited = this.<engine>.<rule>(edited) of
\* processSentence (documentParser.ts:63-71).
CallNextRule ==
  /\ ruleIn.fn = "processSentence"
  /\ ~ruleOut.done
  /\ Trim(ruleIn.text) # <<>>
  /\ Len(applied) < Len(sentenceRules)
  /\ RuleApplied(sentenceRules[Len(applied) + 1],
                 ApplyRule(Edited, sentenceRules[Len(applied) + 1]))
  /\ UNCHANGED <<procVars, ruleIn, editVars>>

\* separateMultipleIdeas returned splits: processSentence returns the parts
\* joined when there are several, else the edited sentence.
SeparateReturned(splits) ==
  /\ applied' = Append(applied, Applied("separateMultipleIdeas", Edited, splits.parts))
  /\ ruleOut' = [ruleOut EXCEPT
                   !.done = TRUE,
                   !.text = IF Len(splits.parts) > 1 THEN Join(splits.parts, <<" ">>)
                            ELSE Edited,
                   !.changes = @ \o splits.changes]

\* The end of processSentence (documentParser.ts:73-78).
CallSeparate ==
  /\ ruleIn.fn = "processSentence"
  /\ ~ruleOut.done
  /\ Len(applied) = Len(sentenceRules)
  /\ SeparateReturned(separateMultipleIdeas(Edited))
  /\ UNCHANGED <<procVars, ruleIn, editVars>>

\* What insertOverviewSection is called with: at first the arguments of the
\* call, then what the call before returned.
OverviewInput ==
  IF applied = <<>> THEN [sections |-> ruleIn.sections, changes |-> ruleIn.changes]
  ELSE applied[Len(applied)].output

\* insertOverviewSection returned r for the input.
OverviewReturned(input, r) ==
  /\ applied' = Append(applied, Applied("insertOverviewSection", input, r))
  /\ ruleOut' = [NoOut EXCEPT !.done = applied # <<>>, !.value = r.sections,
                              !.changes = r.changes]

\* insertOverviewSection called on a section list, and then once more on the
\* list it returned, on the same StructureRules instance.
CallInsertOverview ==
  /\ ruleIn.fn = "insertOverviewSection"
  /\ ~ruleOut.done
  /\ OverviewReturned(OverviewInput,
                      insertOverviewSection(OverviewInput.sections,
                                            OverviewInput.changes))
  /\ UNCHANGED <<procVars, ruleIn, editVars>>

NextRules ==
  \/ CallInsertOverview
  \/ CallRule
  \/ CallValidateIntroduction
  \/ CallValidateAbstract
  \/ CallCalculateClarityScore
  \/ CallCheckClarity
  \/ CallSplitLongSentences
  \/ ReturnBlank
  \/ CallNextRule
  \/ CallSeparate

SpecRules == InitRules /\ [][NextRules]_vars

\* ------------------------------------------------------------------------
\* Properties
\* ------------------------------------------------------------------------

\* The Changes that the rule calls of invocation i pushed while they worked on
\* the sentences of section k.
MadeOn(i, k) == {c \in Range(produced[i]) : c.sec = k}

\* C1: the changes list of every processed section holds exactly the Changes
\* made on the sentences of that section, and when the sentences of a section
\* start being processed the accumulators hold no Change of an earlier section.
C1_SectionsHoldOwnChanges ==
  \A i \in Invocations :
     /\ pc[i] = "returned" =>
          \A k \in 1..Len(result[i].sections) :
             Range(result[i].sections[k].changes) = MadeOn(i, k)
     /\ (running = i /\ nextSec[i] <= Len(sections[i])) =>
          \A c \in Range(collectChanges) : c.inv = i => c.sec >= nextSec[i]

\* C2: the flattened changes list of a returned document holds the Changes in
\* the order in which the rule calls made them, whichever engine made them.
C2_FlattenedInApplicationOrder ==
  \A i \in Invocations :
     pc[i] = "returned" =>
        \A m, n \in 1..Len(result[i].changes) :
           m < n => result[i].changes[m].id < result[i].changes[n].id

\* C3: a call of a sentence-level rule that returns a text other than its
\* input appends exactly one Change, and a call that appends no Change
\* returns its input.
C3_RuleChangeIffTextChanged ==
  (ruleOut.done /\ ruleIn.fn = "rule") =>
     /\ ruleOut.text # ruleIn.text => Len(ruleOut.changes) = Len(ruleIn.changes) + 1
     /\ Len(ruleOut.changes) = Len(ruleIn.changes) => ruleOut.text = ruleIn.text

\* C4: whenever the fixedText of validateIntroduction or validateAbstract
\* differs from the input text, the call appended at least one Change.
C4_FixesAreRecorded ==
  (ruleOut.done /\ ruleIn.fn \in {"validateIntroduction", "validateAbstract"}) =>
     (ruleOut.text # ruleIn.text => Len(ruleOut.changes) > Len(ruleIn.changes))

\* C5: when processDocument has returned, its flattened changes list is the
\* concatenation of the changes lists of its sections and holds every Change
\* the invocation appended exactly once, and the three accumulators are empty.
C5_ReturnCollectsAll ==
  /\ \A i \in Invocations :
        pc[i] = "returned" =>
           /\ result[i].changes = FlatChanges(result[i].sections)
           /\ Range(result[i].changes) = Range(produced[i])
           /\ Len(result[i].changes) = Len(produced[i])
  /\ (/\ \E i \in Invocations : pc[i] = "returned"
      /\ \A i \in Invocations : pc[i] \in {"idle", "returned"}) =>
        /\ clarityChanges = <<>>
        /\ styleChanges = <<>>
        /\ structureChanges = <<>>

\* A document of two sections with Changes in both was processed and returned,
\* and no invocation is in progress.
C5_Witness ==
  \E i \in Invocations :
     /\ pc[i] = "returned"
     /\ \A j \in Invocations : pc[j] \in {"idle", "returned"}
     /\ Len(result[i].sections) >= 2
     /\ \A k \in 1..2 : MadeOn(i, k) # {}
     /\ Len(result[i].changes) >= 2

\* C6: when invocations on one instance overlap, the changes list each of them
\* returns holds exactly the Changes of its own rule calls.
C6_OverlapKeepsOwnChanges ==
  \A i \in Invocations :
     pc[i] = "returned" =>
        /\ \A c \in Range(result[i].changes) : c.inv = i
        /\ \A c \in Range(produced[i]) : c \in Range(result[i].changes)

\* The Changes the tracking report lists.
Listed(report) ==
  UNION {Range(report.changesByType[n].changes) : n \in 1..Len(report.changesByType)}

\* C7: when editDocument has returned for a full_paper, the Changes of the
\* structure step are counted in metrics.changes and listed in the tracking
\* report, and the metrics are those of the text after the structure fixes.
C7_StructureChangesCounted ==
  (edit.phase = "returned" /\ edit.type = "full_paper" /\ ~editResult.rejected) =>
     /\ \A n \in 1..Len(edit.structure) : edit.structure[n] \in Listed(edit.report)
     /\ edit.report.totalEdits = Len(edit.allChanges) + Len(edit.structure)
     /\ editResult.metrics.changes = Len(edit.allChanges) + Len(edit.structure)
     /\ editResult.metrics.wordReduction =
          calculateMetrics(edit.text, edit.sections).wordReduction

\* The rule names of the Changes of validateIntroduction and validateAbstract.
IntroductionFixes ==
  {"Introduction Structure", "Contributions Section", "Remove Obvious Statements"}

AbstractFixes == {"Abstract Structure", "Abstract Length"}

\* C8: after the structure step of editDocument on a full_paper, the structure
\* Changes in the changes list of a section are those of the validation of
\* that section: not the Change of insertOverviewSection, and not a Change of
\* the validation of another section.
C8_SectionGetsOwnStructureChanges ==
  (edit.phase \in {"report", "mkdir", "write", "returned"}
     /\ edit.type = "full_paper") =>
     \A k \in 1..Len(edit.sections) :
        \A n \in 1..Len(edit.sections[k].changes) :
           edit.sections[k].changes[n].type = "structure" =>
              /\ edit.sections[k].changes[n].rule # "Overview Section"
              /\ edit.sections[k].changes[n].rule \in IntroductionFixes =>
                   TitleIncludes(edit.sections[k], "introduction")
              /\ edit.sections[k].changes[n].rule \in AbstractFixes =>
                   TitleIncludes(edit.sections[k], "abstract")

\* C9: when the save of the tracking report fails, editDocument still returns
\* the complete result (edited text, metrics, suggestions, and the report when
\* the output format asks for it) and rejects nothing; and whenever the save is
\* under way, the edited text and the report are already computed.
C9_SaveFailureIsContained ==
  /\ (edit.phase = "returned" /\ edit.saveFailed) =>
        /\ ~editResult.rejected
        /\ editResult.edited = edit.fullEdited
        /\ editResult.metrics = [changes |-> Len(edit.allChanges),
                                 wordReduction |-> edit.metrics.wordReduction]
        /\ editResult.suggestions = edit.suggestions
        /\ edit.format \in {"tracked_changes", "both"} =>
             editResult.tracking = <<edit.report>>
  /\ edit.phase \in {"mkdir", "write"} =>
        /\ edit.fullEdited = FullEdited(edit.sections)
        /\ edit.report = generateTrackingMarkdown(edit.text, edit.fullEdited,
                                                  edit.allChanges,
                                                  edit.report.generated)

\* A call that asked for both outputs returned after its save had failed.
C9_Witness ==
  /\ edit.phase = "returned"
  /\ edit.saveFailed
  /\ edit.format = "both"
  /\ edit.allChanges # <<>>
  /\ editResult.tracking = <<edit.report>>

\* C10: every editDocument call that saved its report has a file of its own:
\* there are as many files as calls that saved, no two of these calls got the
\* same path, and the file of each still holds the report of that call.
C10_EverySaveHasItsOwnFile ==
  /\ Cardinality(files) = Len(saved)
  /\ \A m, n \in 1..Len(saved) : m # n => saved[m].path # saved[n].path
  /\ \A n \in 1..Len(saved) :
        [name |-> saved[n].path, by |-> saved[n].call] \in files

\* The rewriting rules in the order of the sentence pipeline.
PipelineOrder ==
  <<fixPassiveVoice, simplifyLanguage, cleanVocabulary, fixTense,
    removeRedundancy, enforceActiveWriting, removeParentheticals>>

\* C11: processSentence calls on a non-blank sentence exactly the eight rules
\* fixPassiveVoice, simplifyLanguage, cleanVocabulary, fixTense,
\* removeRedundancy, enforceActiveWriting, removeParentheticals,
\* separateMultipleIdeas in this order, the first on the sentence and each
\* other one on what the call before it returned; on a blank sentence it calls
\* no rule and returns the sentence.
C11_EightRulesInOrder ==
  ruleIn.fn = "processSentence" =>
     /\ Len(applied) <= Len(PipelineOrder) + 1
     /\ \A n \in 1..Len(applied) :
           /\ n <= Len(PipelineOrder) => applied[n].fn = PipelineOrder[n]
           /\ n > Len(PipelineOrder) => applied[n].fn = "separateMultipleIdeas"
           /\ applied[n].input = (IF n = 1 THEN ruleIn.text ELSE applied[n - 1].output)
     /\ ruleOut.done =>
           /\ Trim(ruleIn.text) = <<>> =>
                applied = <<>> /\ ruleOut.text = ruleIn.text /\ ruleOut.changes = <<>>
           /\ Trim(ruleIn.text) # <<>> =>
                /\ Len(applied) = Len(PipelineOrder) + 1
                /\ applied[Len(applied)].input = applied[Len(PipelineOrder)].output
                /\ ruleOut.text = processSentence(ruleIn.text).text

\* processSentence returned for a sentence that the cleanup of the vocabulary
\* left with fewer clauses: separation got the cleaned sentence and kept it
\* whole, while the sentence as it came in would have been separated.
C11_Witness ==
  /\ ruleIn.fn = "processSentence"
  /\ ruleOut.done
  /\ Len(applied) = Len(PipelineOrder) + 1
  /\ applied[Len(applied)].input # ruleIn.text
  /\ Len(applied[Len(applied)].output) = 1
  /\ Len(separateMultipleIdeas(ruleIn.text).parts) > 1

\* The sections of a list whose title holds "overview".
Overviews(list) ==
  {k \in 1..Len(list) : TitleIncludes(list[k], "overview")}

\* C12: insertOverviewSection called on a section list that holds a section
\* whose title contains "overview", in whatever case, returns the same
\* sections in the same order and appends no Change; a list the function
\* itself returned is such a list.
C12_OverviewInsertedOnce ==
  ruleIn.fn = "insertOverviewSection" =>
     \A n \in 1..Len(applied) :
        /\ Overviews(applied[n].output.sections) # {}
        /\ Overviews(applied[n].input.sections) # {} =>
             /\ applied[n].output.sections = applied[n].input.sections
             /\ applied[n].output.changes = applied[n].input.changes
        /\ n > 1 => applied[n].output = applied[n - 1].output

\* insertOverviewSection inserted an Overview section into a list that had
\* none, and was called once more on the list it returned.
C12_Witness ==
  /\ ruleIn.fn = "insertOverviewSection"
  /\ Len(applied) = 2
  /\ Overviews(ruleIn.sections) = {}
  /\ ruleIn.sections # <<>>
  /\ Cardinality(Overviews(applied[2].output.sections)) = 1
  /\ Len(applied[2].output.changes) = Len(ruleIn.changes) + 1

\* The five checks of an introduction, made on the text.
FiveChecks(text) ==
  <<checkFirstParagraphProblem(text),
    Includes(LowerAll(text), <<"contribution">>),
    ~hasObviousStatements(text),
    identifiesKeyIdea(text),
    mentionsAlternatives(text)>>

FailedChecks(text) == {n \in 1..5 : ~FiveChecks(text)[n]}

\* C13: validateIntroduction returns valid = true exactly when the five
\* checks hold for the text; issues is absent exactly when valid is true, and
\* holds one issue per failed check otherwise.
C13_ValidIffAllChecks ==
  (ruleOut.done /\ ruleIn.fn = "validateIntroduction") =>
     /\ ruleOut.valid <=> FailedChecks(ruleIn.text) = {}
     /\ ruleOut.issues = <<>> <=> ruleOut.valid
     /\ ruleOut.issues # <<>> =>
          Len(ruleOut.issues[1]) = Cardinality(FailedChecks(ruleIn.text))

\* validateIntroduction returned for an introduction that passes all five
\* checks.
C13_Witness ==
  /\ ruleOut.done
  /\ ruleIn.fn = "validateIntroduction"
  /\ ruleOut.valid
  /\ ruleOut.issues = <<>>
  /\ ruleOut.text = ruleIn.text

\* validateIntroduction returned for an introduction that fails three checks.
C13_WitnessInvalid ==
  /\ ruleOut.done
  /\ ruleIn.fn = "validateIntroduction"
  /\ ~ruleOut.valid
  /\ Cardinality(FailedChecks(ruleIn.text)) = 3
  /\ ruleOut.issues # <<>>

\* words.slice(0, n).join(' ') + '.' for the words of a text.
FirstWords(text, n) == Join(Take(SplitWs(text), n), <<" ">>) \o <<".">>

\* The text holds one of the phrases restructureAbstract rewrites, in any
\* letter case.
SelfReferring(text) ==
  \E k \in 1..Len(selfReferences.steps) :
     Includes(LowerAll(text), selfReferences.steps[k].pat)

AbstractComponents == {"problem", "approach", "result"}

\* C14, as stated: for an abstract of more than 250 words, the fixedText of
\* validateAbstract is the first 250 words of the abstract followed by a
\* period.
C14_LongAbstractTruncated ==
  (ruleOut.done /\ ruleIn.fn = "validateAbstract"
     /\ WordCount(ruleIn.text) > AbstractMaxWords) =>
     ruleOut.text = FirstWords(ruleIn.text, AbstractMaxWords)

\* C14, amended: for an abstract of more than 250 words that names all three
\* components and holds none of the rewritten self-reference phrases, the
\* fixedText is the first 250 words of the abstract, joined by single blanks,
\* followed by a period.
C14_SelfContainedLongAbstractTruncated ==
  (ruleOut.done /\ ruleIn.fn = "validateAbstract"
     /\ WordCount(ruleIn.text) > AbstractMaxWords
     /\ hasAllComponents(ruleIn.text, AbstractComponents)
     /\ ~SelfReferring(ruleIn.text)) =>
     ruleOut.text = FirstWords(ruleIn.text, AbstractMaxWords)

C14_Witness ==
  /\ ruleOut.done /\ ruleIn.fn = "validateAbstract"
  /\ WordCount(ruleIn.text) > AbstractMaxWords
  /\ hasAllComponents(ruleIn.text, AbstractComponents)
  /\ ~SelfReferring(ruleIn.text)
  /\ ruleOut.text = FirstWords(ruleIn.text, AbstractMaxWords)
  /\ ruleOut.text # ruleIn.text
  /\ WordCount(ruleOut.text) = AbstractMaxWords

\* C15: the fixedText of validateAbstract satisfies the abstract rules: its
\* word count lies within 100..250 and it contains a synonym of each of
\* problem, approach and result.
C15_FixedAbstractSatisfiesRules ==
  (ruleOut.done /\ ruleIn.fn = "validateAbstract") =>
     /\ WordCount(ruleOut.text) >= AbstractMinWords
     /\ WordCount(ruleOut.text) <= AbstractMaxWords
     /\ hasAllComponents(ruleOut.text, AbstractComponents)

\* C16, as stated: for an abstract of fewer than 100 words that contains a
\* synonym of each of problem, approach and result, validateAbstract reports
\* selfContained passing and returns the text with the expansion sentence
\* appended once, which raises the word count by 18.
C16_ShortAbstractExpandedOnce ==
  (ruleOut.done /\ ruleIn.fn = "validateAbstract"
     /\ WordCount(ruleIn.text) < AbstractMinWords
     /\ hasAllComponents(ruleIn.text, AbstractComponents)) =>
     /\ ruleOut.value.selfContained
     /\ ruleOut.text = ruleIn.text \o expansion
     /\ WordCount(ruleOut.text) = WordCount(ruleIn.text) + 18

\* The abstract C16 holds for: short, self-contained, without a self-reference
\* phrase and not ending in whitespace.
PlainShortAbstract(text) ==
  /\ WordCount(text) < AbstractMinWords
  /\ hasAllComponents(text, AbstractComponents)
  /\ ~SelfReferring(text)
  /\ text[Len(text)] \notin Ws

\* C16, amended: for such an abstract that holds none of the rewritten
\* self-reference phrases and does not end in whitespace, validateAbstract
\* reports selfContained passing and returns the text with the expansion
\* sentence appended once, which raises the word count by 18.
C16_PlainShortAbstractExpandedOnce ==
  (ruleOut.done /\ ruleIn.fn = "validateAbstract" /\ PlainShortAbstract(ruleIn.text)) =>
     /\ ruleOut.value.selfContained
     /\ ruleOut.text = ruleIn.text \o expansion
     /\ WordCount(ruleOut.text) = WordCount(ruleIn.text) + 18

C16_Witness ==
  /\ ruleOut.done /\ ruleIn.fn = "validateAbstract" /\ PlainShortAbstract(ruleIn.text)
  /\ ruleOut.value.selfContained /\ ~ruleOut.value.correctLength
  /\ ruleOut.text = ruleIn.text \o expansion
  /\ WordCount(ruleOut.text) = WordCount(ruleIn.text) + 18

\* C17: the clarity score lies within 0..100, both the score
\* DocumentProcessor.calculateClarityScore computes and the score checkClarity
\* returns, for every text, the empty text and texts with many passive
\* matches, complex words and issues included.
C17_ClarityScoreInRange ==
  /\ (ruleOut.done /\ ruleIn.fn = "calculateClarityScore") =>
        ruleOut.value \in 0..100
  /\ (ruleOut.done /\ ruleIn.fn = "checkClarity") =>
        ruleOut.value.score \in 0..100

\* A text whose penalties exceed 100 was scored by checkClarity.
C17_Witness ==
  /\ ruleOut.done /\ ruleIn.fn = "checkClarity"
  /\ ScoreUnfloored(<<checkPassiveVoice(ruleIn.text),
                      checkLongSentences(SentenceMatches(ruleIn.text)),
                      checkComplexWords(Words(ruleIn.text)), checkJargon(ruleIn.text),
                      checkRedundancy(ruleIn.text),
                      checkMultipleClauses(SentenceMatches(ruleIn.text))>>,
                    ruleOut.value.statistics) < 0
  /\ ruleOut.value.score = 0

\* A text with more than fifty passive matches was scored by DocumentProcessor.
C17_WitnessProcessor ==
  /\ ruleOut.done /\ ruleIn.fn = "calculateClarityScore"
  /\ PassiveMatchCount(ruleIn.text) * 2 > 100
  /\ ruleOut.value = 0

\* The issues of a category in the result of checkClarity.
IssuesOf(category) ==
  SelectSeq(ruleOut.value.issues, LAMBDA i : i.category = category)

\* The number of matches of the four passive patterns in the text.
PassiveConstructions == MatchCounts(ruleIn.text, checkPassivePatterns, 1)

\* C18: checkClarity lists the Passive Voice issue as high for a count above 5,
\* as medium for a count of 3 to 5 and as low for a count of 1 or 2, and lists
\* no issue category whose count is 0.
C18_PassiveSeverityByCount ==
  (ruleOut.done /\ ruleIn.fn = "checkClarity") =>
     /\ \A k \in 1..Len(ruleOut.value.issues) : ruleOut.value.issues[k].count > 0
     /\ PassiveConstructions = 0 => IssuesOf("Passive Voice") = <<>>
     /\ PassiveConstructions > 0 =>
          IssuesOf("Passive Voice") =
            <<[category |-> "Passive Voice",
               severity |-> IF PassiveConstructions > 5 THEN "high"
                            ELSE IF PassiveConstructions >= 3 THEN "medium"
                            ELSE "low",
               count |-> PassiveConstructions]>>

\* Six passive sentences were checked: the issue is high, and the categories
\* without a finding are left out.
C18_Witness ==
  /\ ruleOut.done /\ ruleIn.fn = "checkClarity"
  /\ ruleIn.text = Repeated(sPassive, 6)
  /\ ruleOut.value.issues = <<[category |-> "Passive Voice", severity |-> "high", count |-> 6]>>

\* Five passive sentences were checked: the issue is medium.
C18_WitnessMedium ==
  /\ ruleOut.done /\ ruleIn.fn = "checkClarity"
  /\ ruleIn.text = Repeated(sPassive, 5)
  /\ IssuesOf("Passive Voice")[1].severity = "medium"

\* C19: when splitLongSentences splits a sentence of more than 25 words, each
\* of the two resulting sentences has at least 5 words; when no sentence is
\* split, the returned text is the input text and no Change is recorded.
C19_SplitHalvesHaveFiveWords ==
  (ruleOut.done /\ ruleIn.fn = "splitLongSentences") =>
     /\ \A n \in 1..Len(ruleOut.value) :
           Len(ruleOut.value[n]) > 1 =>
              /\ Len(ruleOut.value[n]) = 2
              /\ \A k \in 1..2 : WordCount(ruleOut.value[n][k]) >= MinSplitWords
     /\ (\A n \in 1..Len(ruleOut.value) : Len(ruleOut.value[n]) = 1) =>
           ruleOut.text = ruleIn.text /\ ruleOut.changes = <<>>

\* The rule and the type of every Change of a list, in order.
RulesAndTypes(changes) ==
  [k \in 1..Len(changes) |-> <<changes[k].rule, changes[k].type>>]

\* C20: processing the example input of the README produces exactly three
\* Changes, in this order: Passive Voice (clarity), Forbidden Vocabulary
\* (vocabulary), Tense Correction (style).
C20_ExampleHasThreeChanges ==
  \A i \in Invocations :
     (pc[i] = "returned" /\ doc[i].text = sExample) =>
        RulesAndTypes(result[i].changes) =
          <<<<"Passive Voice", "clarity">>, <<"Forbidden Vocabulary", "vocabulary">>,
            <<"Tense Correction", "style">>>>

\* The example input was processed by an invocation that followed another one
\* on the same instance, and it returned its three Changes.
C20_Witness ==
  \E i \in Invocations :
     /\ i > 1
     /\ pc[i] = "returned" /\ doc[i].text = sExample
     /\ Len(result[i].changes) = 3
     /\ result[i].changes[1].before = sDesigned
     /\ result[i].changes[2].before = sShouldBeNoted
     /\ result[i].trackingDocument.totalChanges = 3

\* The edited output the README gives for its example (README.md:128-131).
sExampleEdited ==
  <<"Our", " ", "team", " ", "designed", " ", "the", " ", "system", ".", " ",
    "The", " ", "results", " ", "are", " ", "evaluated", ".">>

\* C21: for the example input of the README the edited output is "Our team
\* designed the system. The results are evaluated."
C21_ExampleEditedOutput ==
  \A i \in Invocations :
     (pc[i] = "returned" /\ doc[i].text = sExample) =>
        /\ Len(result[i].sections) = 1
        /\ result[i].sections[1].edited = sExampleEdited

\* processed.map(s => s.edited || s.content).join(' ') of a returned invocation.
EditedText(i) ==
  Join([k \in 1..Len(result[i].sections) |-> EditedOrContent(result[i].sections[k])],
       <<" ">>)

\* C22, as stated: the word-count metric processDocument returns is the word
\* count of the edited text minus the word count of the original text.
C22_DeltaIsEditedMinusOriginal ==
  \A i \in Invocations :
     pc[i] = "returned" =>
        result[i].metrics.wordReduction =
          WordCount(EditedText(i)) - WordCount(doc[i].text)

\* C22, amended: the metric is the word count of the original text minus the
\* word count of the edited text, positive when the edited text has fewer
\* words and negative when it has more.
C22_ReductionIsOriginalMinusEdited ==
  \A i \in Invocations :
     pc[i] = "returned" =>
        /\ result[i].metrics.wordReduction =
             WordCount(doc[i].text) - WordCount(EditedText(i))
        /\ result[i].metrics.wordReduction > 0
             <=> WordCount(EditedText(i)) < WordCount(doc[i].text)
        /\ result[i].metrics.wordReduction < 0
             <=> WordCount(EditedText(i)) > WordCount(doc[i].text)

\* An invocation returned an edited text with fewer words than its input.
C22_Witness ==
  \E i \in Invocations :
     /\ pc[i] = "returned"
     /\ result[i].changes # <<>>
     /\ WordCount(EditedText(i)) < WordCount(doc[i].text)
     /\ result[i].metrics.wordReduction > 0

\* An invocation returned an edited text with more words than its input.
C22_WitnessLonger ==
  \E i \in Invocations :
     /\ pc[i] = "returned"
     /\ WordCount(EditedText(i)) > WordCount(doc[i].text)
     /\ result[i].metrics.wordReduction < 0

\* The fields of the Change records of a list, without the history fields.
Plain(changes) ==
  [k \in 1..Len(changes) |->
     MkChange(changes[k].rule, changes[k].type, changes[k].before, changes[k].after)]

\* C23: two processDocument calls made in sequence on one instance with the
\* same text and type return the same edited section texts, the same changes
\* list and the same metrics.
C23_SameInputSameResult ==
  \A i, j \in Invocations :
     (pc[i] = "returned" /\ pc[j] = "returned" /\ doc[i] = doc[j]) =>
        /\ Len(result[i].sections) = Len(result[j].sections)
        /\ \A k \in 1..Len(result[i].sections) :
              /\ result[i].sections[k].edited = result[j].sections[k].edited
              /\ Plain(result[i].sections[k].changes) = Plain(result[j].sections[k].changes)
        /\ Plain(result[i].changes) = Plain(result[j].changes)
        /\ result[i].metrics = result[j].metrics
        /\ result[i].suggestions = result[j].suggestions

\* The same document with Changes in two sections was processed twice.
C23_Witness ==
  \E i, j \in Invocations :
     /\ i < j
     /\ pc[i] = "returned" /\ pc[j] = "returned" /\ doc[i] = doc[j]
     /\ Len(result[j].sections) >= 2
     /\ result[i].changes # <<>>
     /\ Plain(result[i].changes) = Plain(result[j].changes)

\* The Changes validateIntroduction appended to the accumulator it was given.
NewChanges == SubSeq(ruleOut.changes, Len(ruleIn.changes) + 1, Len(ruleOut.changes))

\* C24, as stated: every Change appended during one validateIntroduction call
\* has its before field equal to the text passed to validateIntroduction.
C24_BeforeIsPassedText ==
  (ruleOut.done /\ ruleIn.fn = "validateIntroduction") =>
     \A k \in 1..Len(NewChanges) : NewChanges[k].before = ruleIn.text

\* The text the fix of the k-th appended Change can have started from: the
\* passed text or the after of the preceding Change, as it is or with the
\* contributions paragraph that addContributionsSection appends to a text of
\* one paragraph without a Change.
StartedFrom(k) ==
  LET prev == IF k = 1 THEN ruleIn.text ELSE NewChanges[k - 1].after
  IN  {prev, prev \o contributionText}

\* C24, amended: every Change appended during one validateIntroduction call
\* has its before field equal to the text its fix started from, which is the
\* passed text for the problem-statement Change and the text left by the
\* earlier fixes of the call for every later Change, a text that differs from
\* the passed text.
C24_BeforeIsTextOfItsFix ==
  (ruleOut.done /\ ruleIn.fn = "validateIntroduction") =>
     \A k \in 1..Len(NewChanges) :
        /\ NewChanges[k].before \in StartedFrom(k)
        /\ NewChanges[k].rule = "Introduction Structure" =>
             /\ k = 1
             /\ NewChanges[k].before = ruleIn.text
        /\ k > 1 => NewChanges[k].before # ruleIn.text

\* validateIntroduction returned after the problem-statement fix and a later
\* fix were applied in the same call.
C24_Witness ==
  /\ ruleOut.done
  /\ ruleIn.fn = "validateIntroduction"
  /\ Len(NewChanges) >= 2
  /\ NewChanges[1].rule = "Introduction Structure"
  /\ NewChanges[2].before = NewChanges[1].after
  /\ NewChanges[2].before # ruleIn.text

\* validateIntroduction returned after the contributions paragraph was
\* appended without a Change and the obvious statement was removed from it.
C24_WitnessAppended ==
  /\ ruleOut.done
  /\ ruleIn.fn = "validateIntroduction"
  /\ Len(NewChanges) >= 2
  /\ NewChanges[2].before = NewChanges[1].after \o contributionText

\* The halves of the sentence at conjunction n satisfy the test of
\* intelligentSplit.
SplitsAt(sentence, n) ==
  LET parts == SplitRx(sentence, conjunctions[n])
  IN  /\ Len(parts) = 2
      /\ \A k \in 1..2 : WordCount(parts[k]) >= MinSplitWords

\* The first tokens of the second sentence that the replacement of conjunction
\* n stands for ('. However, ', '. This ', '. Meanwhile, ').
Replacement(n) ==
  CASE n = 2 -> <<"However", ",", " ">>
    [] n = 4 -> <<"This", " ">>
    [] n = 5 -> <<"Meanwhile", ",", " ">>
    [] OTHER -> <<>>

StartsWith(text, prefix) ==
  /\ Len(text) >= Len(prefix)
  /\ SubSeq(text, 1, Len(prefix)) = prefix

\* C25: when splitLongSentences splits a sentence at ", but" the second
\* resulting sentence starts with "However,"; at ", which" it starts with
\* "This"; at ", while" it starts with "Meanwhile,".
C25_SecondSentencePrefixed ==
  (ruleOut.done /\ ruleIn.fn = "splitLongSentences" /\ Len(ruleOut.value) = 1) =>
     \A n \in {2, 4, 5} :
        (/\ Len(ruleOut.value[1]) = 2
         /\ SplitsAt(Trim(ruleIn.text), n)
         /\ \A m \in 1..(n - 1) : ~SplitsAt(Trim(ruleIn.text), m)) =>
           StartsWith(ruleOut.value[1][2], Replacement(n))

\* 1 when the condition holds, 0 otherwise.
Indicator(condition) == IF condition THEN 1 ELSE 0

\* max(0, 100 - 10 [average > 20] - 10 [average > 25] - 2 passive matches
\* - min(20, words of ten characters or more)), the average being the words of
\* the terminated sentences over their number; without a sentence the average
\* is no number and exceeds nothing.
PenaltyFormula(text) ==
  LET count == Len(SentenceMatches(text))
      total == SentenceWords(SentenceMatches(text))
  IN  Max(0, 100 - 10 * Indicator(count > 0 /\ total > 20 * count)
                 - 10 * Indicator(count > 0 /\ total > 25 * count)
                 - 2 * PassiveMatchCount(text)
                 - Min(20, ComplexWordCount(text)))

\* C26, as stated: the clarity score of every text equals the penalty formula,
\* a text without a terminated sentence included.
C26_ClarityIsPenaltyFormula ==
  (ruleOut.done /\ ruleIn.fn = "calculateClarityScore") =>
     ruleOut.value = PenaltyFormula(ruleIn.text)

\* C26, amended: the clarity score of a text with at least one terminated
\* sentence equals the penalty formula, and the clarity score of a text
\* without a terminated sentence is 0.
C26_ClarityIsPenaltyFormulaOrZero ==
  (ruleOut.done /\ ruleIn.fn = "calculateClarityScore") =>
     ruleOut.value = IF SentenceMatches(ruleIn.text) = <<>>
                     THEN 0
                     ELSE PenaltyFormula(ruleIn.text)

\* A text without a terminated sentence, with a passive match and a word of
\* ten characters, was scored 0.
C26_Witness ==
  /\ ruleOut.done /\ ruleIn.fn = "calculateClarityScore"
  /\ ruleIn.text = sWasTested
  /\ SentenceMatches(ruleIn.text) = <<>>
  /\ PenaltyFormula(ruleIn.text) = 97
  /\ ruleOut.value = 0

\* A sentence of 22 words was scored 90, one of more than 25 words with a
\* passive match less than 80.
C26_WitnessPenalties ==
  /\ ruleOut.done /\ ruleIn.fn = "calculateClarityScore"
  /\ \/ ruleIn.text = sLongish /\ ruleOut.value = 90
     \/ ruleIn.text = sCrowded /\ ruleOut.value < 80 /\ ruleOut.value > 0

\* The lines of a text that are not blank, trimmed, in order.
NonBlankLines(lines) ==
  LET kept == SelectSeq(lines, LAMBDA line : Trim(line) # <<>>)
  IN  [n \in 1..Len(kept) |-> Trim(kept[n])]

\* The lines of the input that are neither blank nor a heading.
TextLines(text) ==
  NonBlankLines(SelectSeq(SplitLines(text), LAMBDA line : ~IsHeading(line)))

\* The lines of the contents of the sections, section after section.
SectionLines(list) ==
  Flat([k \in 1..Len(list) |-> NonBlankLines(SplitLines(list[k].content))])

\* C27: section extraction for a full_paper loses no input text: the lines of
\* the input that are neither blank nor a heading are, in order and once
\* each, the lines of the contents of the extracted sections, lines before the
\* first heading included.
C27_NoLineLost ==
  \A i \in Invocations :
     (pc[i] # "idle" /\ doc[i].type = "full_paper") =>
        SectionLines(sections[i]) = TextLines(doc[i].text)

\* C28: sentence segmentation in processDocument loses no text: when no rule
\* pattern matched, so that no Change was recorded, the edited text of every
\* section holds the words of the section's content in the same order, a
\* trailing fragment without terminal punctuation included.
C28_NoWordLost ==
  \A i \in Invocations :
     (pc[i] = "returned" /\ result[i].changes = <<>>) =>
        \A k \in 1..Len(result[i].sections) :
           SelectSeq(result[i].sections[k].edited, LAMBDA t : t \notin Ws)
             = SelectSeq(result[i].sections[k].original, LAMBDA t : t \notin Ws)

\* C29: the score checkClarity returns is reduced only by the issue
\* categories that were detected: it is 100 less the penalties of the returned
\* issues and of the statistics, within 0..100, so a text with no returned
\* issue and no statistics penalty scores 100.
C29_OnlyDetectedIssuesPenalised ==
  (ruleOut.done /\ ruleIn.fn = "checkClarity") =>
     /\ ruleOut.value.score =
          Max(0, Min(100, 100 - IssuePenalty(ruleOut.value.issues)
                              - StatisticsPenalty(ruleOut.value.statistics)))
     /\ (/\ ruleOut.value.issues = <<>>
         /\ StatisticsPenalty(ruleOut.value.statistics) = 0) =>
           ruleOut.value.score = 100

\* The fields of the statistics block.
StatisticsFields ==
  {"averageSentenceLength", "passiveVoicePercentage", "complexWordPercentage",
   "readabilityScore", "jargonDensity"}

\* C30: every field of the statistics block checkClarity returns is a finite
\* number, for a text without a terminated sentence or without words too.
C30_StatisticsFinite ==
  (ruleOut.done /\ ruleIn.fn = "checkClarity") =>
     \A field \in StatisticsFields :
        ruleOut.value.statistics[field].kind = "finite"

=============================================================================
